---- MODULE Spec2Model ----
(***************************************************************************)
(* Smart Search (obsidian-smart-search): the document index kept by        *)
(* SearchIndex, the plugin's rebuild / cancel / file-watcher logic around  *)
(* it, and the ranking done by SearchIndex.search.                         *)
(*                                                                         *)
(* Strings are sequences of one-character strings, so that substring and   *)
(* word-boundary tests are computed the way the code computes them.        *)
(***************************************************************************)
EXTENDS Integers, Sequences, FiniteSets, TLC

\* ------------------------------------------------------------------------
\* Characters and strings
\* ------------------------------------------------------------------------

UpperChars ==
  <<"A","B","C","D","E","F","G","H","I","J","K","L","M",
    "N","O","P","Q","R","S","T","U","V","W","X","Y","Z">>

LowerChars ==
  <<"a","b","c","d","e","f","g","h","i","j","k","l","m",
    "n","o","p","q","r","s","t","u","v","w","x","y","z">>

DigitChars == {"0","1","2","3","4","5","6","7","8","9"}

Range(f) == {f[i] : i \in DOMAIN f}

\* String.prototype.toLowerCase on one character.
LowerChar(c) ==
  IF \E i \in DOMAIN UpperChars : UpperChars[i] = c
  THEN LowerChars[CHOOSE i \in DOMAIN UpperChars : UpperChars[i] = c]
  ELSE c

\* String.prototype.toLowerCase.
ToLower(str) == [i \in 1..Len(str) |-> LowerChar(str[i])]

\* The regular expression class \w.
IsWordChar(c) == c \in Range(UpperChars) \cup Range(LowerChars) \cup DigitChars \cup {"_"}

\* The regular expression class \s (the members that occur in the model).
IsSpace(c) == c \in {" ", "\n", "\t"}

\* String.prototype.includes: term occurs in text as a substring.
Includes(text, term) ==
  \E i \in 0..(Len(text) - Len(term)) : SubSeq(text, i + 1, i + Len(term)) = term

\* String.prototype.startsWith.
StartsWith(text, prefix) ==
  Len(prefix) <= Len(text) /\ SubSeq(text, 1, Len(prefix)) = prefix

\* String.prototype.trim.
RECURSIVE TrimLeft(_)
TrimLeft(str) ==
  IF str # <<>> /\ IsSpace(Head(str)) THEN TrimLeft(Tail(str)) ELSE str

RECURSIVE TrimRight(_)
TrimRight(str) ==
  IF str # <<>> /\ IsSpace(str[Len(str)])
  THEN TrimRight(SubSeq(str, 1, Len(str) - 1))
  ELSE str

Trim(str) == TrimRight(TrimLeft(str))

\* String.prototype.split(sep) for a one-character separator.
RECURSIVE Split(_, _)
Split(str, sep) ==
  IF \E i \in 1..Len(str) : str[i] = sep
  THEN LET k == CHOOSE i \in 1..Len(str) :
                  str[i] = sep /\ \A j \in 1..(i - 1) : str[j] # sep
       IN <<SubSeq(str, 1, k - 1)>> \o Split(SubSeq(str, k + 1, Len(str)), sep)
  ELSE <<str>>

\* Array.prototype.join(sep).
RECURSIVE Join(_, _)
Join(strs, sep) ==
  IF strs = <<>> THEN <<>>
  ELSE IF Len(strs) = 1 THEN strs[1]
  ELSE strs[1] \o sep \o Join(Tail(strs), sep)

\* Array.prototype.flat / flatMap over a sequence of sequences.
RECURSIVE Flatten(_)
Flatten(xss) == IF xss = <<>> THEN <<>> ELSE Head(xss) \o Flatten(Tail(xss))

\* new Set(xs) followed by Array.from: the first occurrence of each element,
\* in order.
RECURSIVE Dedupe(_)
Dedupe(xs) ==
  IF xs = <<>> THEN <<>>
  ELSE LET init == Dedupe(SubSeq(xs, 1, Len(xs) - 1))
           x    == xs[Len(xs)]
       IN IF \E i \in DOMAIN init : init[i] = x THEN init ELSE Append(init, x)

\* ------------------------------------------------------------------------
\* SearchIndex: parsing a document's text
\* ------------------------------------------------------------------------

\* The lines of a text (the '\n' that ends a line is not part of it).
Lines(content) == Split(content, "\n")

\* '^' under the 'm' flag: position p is the start of the text or follows a
\* line break.
AtLineStart(content, p) == p = 1 \/ content[p - 1] = "\n"

\* '$' under the 'm' flag after a greedy '.+': the last position of the line
\* that holds position p.
LineEnd(content, p) ==
  CHOOSE e \in p..Len(content) :
     /\ \A j \in p..e : content[j] # "\n"
     /\ (e = Len(content) \/ content[e + 1] = "\n")

\* The number of '#' characters from position p on.
RECURSIVE LeadingHashes(_, _)
LeadingHashes(content, p) ==
  IF p <= Len(content) /\ content[p] = "#" THEN 1 + LeadingHashes(content, p + 1) ELSE 0

\* The number of white-space characters, line breaks included, from
\* position q on.
RECURSIVE SpaceRun(_, _)
SpaceRun(content, q) ==
  IF q <= Len(content) /\ IsSpace(content[q]) THEN 1 + SpaceRun(content, q + 1) ELSE 0

\* What '#{1,6}' of headerRegex or '[-*+]' of listRegex takes at position p:
\* the length of the marker, 0 when there is none. The marker is followed by
\* '\s', so the run of '#' is taken whole.
MarkerLength(content, p, kind) ==
  IF kind = "header"
  THEN LET h == LeadingHashes(content, p) IN IF h <= 6 THEN h ELSE 0
  ELSE IF content[p] \in {"-", "*", "+"} THEN 1 ELSE 0

\* '\s+(.+)$' from position q: the greedy '\s+' takes white space, line
\* breaks included, and gives back until '.+' has a character that is not a
\* line break. The position where the capture starts, 0 when nothing matches.
CaptureStart(content, q) ==
  LET taken == {j \in 1..SpaceRun(content, q) :
                  q + j <= Len(content) /\ content[q + j] # "\n"}
  IN IF taken = {} THEN 0
     ELSE q + (CHOOSE j \in taken : \A i \in taken : i <= j)

\* The loop 'while ((match = regex.exec(content)) !== null)' over
\* /^#{1,6}\s+(.+)$/gm (kind "header") or /^[-*+]\s+(.+)$/gm (kind "list"),
\* from position p: match[1].trim() of every match; the search goes on after
\* the end of the match.
RECURSIVE RegexCaptures(_, _, _)
RegexCaptures(content, p, kind) ==
  IF p > Len(content) THEN <<>>
  ELSE LET m == IF AtLineStart(content, p) THEN MarkerLength(content, p, kind) ELSE 0
           start == IF m = 0 THEN 0 ELSE CaptureStart(content, p + m)
       IN IF start = 0 THEN RegexCaptures(content, p + 1, kind)
          ELSE LET e == LineEnd(content, start)
               IN <<Trim(SubSeq(content, start, e))>> \o RegexCaptures(content, e + 1, kind)

\* cells of 'a | b | c': split on '|', trim, drop the empty ones.
SplitCells(row) ==
  LET parts == Split(row, "|")
      trimmed == [i \in 1..Len(parts) |-> Trim(parts[i])]
  IN SelectSeq(trimmed, LAMBDA c : c # <<>>)

FirstBar(line) ==
  CHOOSE i \in 1..Len(line) : line[i] = "|" /\ \A j \in 1..(i - 1) : line[j] # "|"

LastBar(line) ==
  CHOOSE i \in 1..Len(line) : line[i] = "|" /\ \A j \in (i + 1)..Len(line) : line[j] # "|"

\* /\|(.+)\|\n/ : a '|', at least one character, and a '|' that ends the line.
IsTableHeaderLine(line) ==
  /\ Len(line) >= 3
  /\ line[Len(line)] = "|"
  /\ FirstBar(line) < Len(line) - 1

\* The class [-|\s] of the separator.
IsSeparatorChar(c) == c \in {"-", "|"} \/ IsSpace(c)

\* /\|[-|\s]+\|/ over the k lines from line s on: the first starts with '|',
\* the last ends with '|', and everything between the two, the line breaks
\* included, is in the class; at least one character is between them.
IsSeparatorSpan(lines, s, k) ==
  /\ k >= 1
  /\ s + k - 1 <= Len(lines)
  /\ \A i \in s..(s + k - 1) : \A j \in 1..Len(lines[i]) : IsSeparatorChar(lines[i][j])
  /\ lines[s] # <<>> /\ lines[s][1] = "|"
  /\ lines[s + k - 1] # <<>> /\ lines[s + k - 1][Len(lines[s + k - 1])] = "|"
  /\ (k = 1 => Len(lines[s]) >= 3)

\* /\|.+\|\n?/ : a data row, from its first character '|' to its last '|'.
IsRowLine(line) ==
  /\ Len(line) >= 3
  /\ line[1] = "|"
  /\ LastBar(line) >= 3

\* The most lines the greedy separator /\|[-|\s]+\|/ takes from line i on,
\* 0 when it does not match there.
SeparatorRun(lines, i) ==
  LET ok == {k \in 1..(Len(lines) - i + 1) : IsSeparatorSpan(lines, i, k)}
  IN IF ok = {} THEN 0 ELSE CHOOSE k \in ok : \A j \in ok : j <= k

\* The data rows of a table start at line r: rows up to and including the
\* first one that does not end with its last '|' (the group cannot repeat
\* after it).
RECURSIVE RowCount(_, _)
RowCount(lines, r) ==
  IF r <= Len(lines) /\ IsRowLine(lines[r])
  THEN IF LastBar(lines[r]) = Len(lines[r]) THEN 1 + RowCount(lines, r + 1) ELSE 1
  ELSE 0

\* The greedy separator [-|\s]+ runs over line breaks; it takes the most
\* lines that still leave a data row. 0 when there is no table.
SeparatorCount(lines, s) ==
  LET ok == {k \in 1..(Len(lines) - s + 1) :
               IsSeparatorSpan(lines, s, k) /\ RowCount(lines, s + k) >= 1}
  IN IF ok = {} THEN 0 ELSE CHOOSE k \in ok : \A j \in ok : j <= k

\* The tables of parseMarkdownContent, scanning from line i.
RECURSIVE ParseTables(_, _)
ParseTables(lines, i) ==
  IF i > Len(lines) THEN <<>>
  ELSE IF IsTableHeaderLine(lines[i]) /\ SeparatorCount(lines, i + 1) >= 1
  THEN LET seps == SeparatorCount(lines, i + 1)
           first == i + 1 + seps
           n == RowCount(lines, first)
           hdr == SubSeq(lines[i], FirstBar(lines[i]) + 1, Len(lines[i]) - 1)
           rowTexts == [k \in 1..n |->
                          SubSeq(lines[first + k - 1], 1, LastBar(lines[first + k - 1]))]
           kept == SelectSeq(rowTexts, LAMBDA row : Trim(row) # <<>>)
       IN <<[headers |-> SplitCells(hdr),
             rows |-> [k \in 1..Len(kept) |-> SplitCells(kept[k])]]>>
          \o ParseTables(lines, first + n)
  ELSE ParseTables(lines, i + 1)

\* SearchIndex.parseMarkdownContent.
parseMarkdownContent(content) ==
  [headers |-> RegexCaptures(content, 1, "header"),
   lists   |-> RegexCaptures(content, 1, "list"),
   tables  |-> ParseTables(Lines(content), 1)]

\* tableContent of indexFile: every header and every cell of every table.
FlattenTables(tables) ==
  Flatten([t \in 1..Len(tables) |-> tables[t].headers \o Flatten(tables[t].rows)])

IsTagChar(c) == IsWordChar(c) \/ c \in {"/", "-"}

\* SearchIndex.extractTags: every match of /#[\w\/-]+/g, lower-cased.
RECURSIVE extractTags(_)
extractTags(content) ==
  IF Len(content) < 2 THEN <<>>
  ELSE IF content[1] = "#" /\ IsTagChar(content[2])
  THEN LET n == CHOOSE k \in 1..(Len(content) - 1) :
                  /\ \A j \in 2..(k + 1) : IsTagChar(content[j])
                  /\ (k + 2 > Len(content) \/ ~IsTagChar(content[k + 2]))
       IN <<ToLower(SubSeq(content, 1, n + 1))>>
          \o extractTags(SubSeq(content, n + 2, Len(content)))
  ELSE extractTags(Tail(content))

FrontmatterOpen == <<"-","-","-","\n">>

FrontmatterClose == <<"\n","-","-","-">>

DigitSeq == <<"0", "1", "2", "3", "4", "5", "6", "7", "8", "9">>

\* The value of a decimal digit.
DigitValue(c) == (CHOOSE i \in DOMAIN DigitSeq : DigitSeq[i] = c) - 1

\* a < b for two strings of digits of the same length.
DigitsLess(a, b) ==
  \E i \in 1..Len(a) :
     /\ \A j \in 1..(i - 1) : a[j] = b[j]
     /\ DigitValue(a[i]) < DigitValue(b[i])

\* The largest array index, 2^32 - 2.
MaxArrayIndex == <<"4","2","9","4","9","6","7","2","9","4">>

\* The key is an array index: the canonical decimal form of an integer from
\* 0 to 2^32 - 2.
IsArrayIndex(key) ==
  /\ key # <<>>
  /\ \A i \in DOMAIN key : key[i] \in DigitChars
  /\ (Len(key) = 1 \/ key[1] # "0")
  /\ \/ Len(key) < Len(MaxArrayIndex)
     \/ Len(key) = Len(MaxArrayIndex) /\ (key = MaxArrayIndex \/ DigitsLess(key, MaxArrayIndex))

\* a < b for two array indices.
IndexLess(a, b) == Len(a) < Len(b) \/ (Len(a) = Len(b) /\ DigitsLess(a, b))

\* The entries whose keys are array indices, in ascending order of the index.
RECURSIVE SortByIndex(_)
SortByIndex(entries) ==
  IF entries = <<>> THEN <<>>
  ELSE LET sorted == SortByIndex(SubSeq(entries, 1, Len(entries) - 1))
           x == entries[Len(entries)]
           k == Cardinality({i \in DOMAIN sorted : IndexLess(sorted[i].key, x.key)})
       IN SubSeq(sorted, 1, k) \o <<x>> \o SubSeq(sorted, k + 1, Len(sorted))

\* Assigning a string to the property '__proto__' of an object stores nothing.
ProtoKey == <<"_","_","p","r","o","t","o","_","_">>

\* The assignments object[key] = value in order: a key already present keeps
\* its place and takes the new value.
RECURSIVE Assigned(_)
Assigned(pairs) ==
  IF pairs = <<>> THEN <<>>
  ELSE LET init == Assigned(SubSeq(pairs, 1, Len(pairs) - 1))
           p    == pairs[Len(pairs)]
       IN IF p.key = ProtoKey THEN init
          ELSE IF \E i \in DOMAIN init : init[i].key = p.key
          THEN [i \in DOMAIN init |-> IF init[i].key = p.key THEN p ELSE init[i]]
          ELSE Append(init, p)

\* The own properties of the object that the assignments build, in the order
\* in which they are enumerated: the array indices in ascending order, then
\* the other keys in the order of their first assignment.
ObjectFromPairs(pairs) ==
  LET own == Assigned(pairs)
  IN SortByIndex(SelectSeq(own, LAMBDA p : IsArrayIndex(p.key)))
     \o SelectSeq(own, LAMBDA p : ~IsArrayIndex(p.key))

\* SearchIndex.extractFrontmatter: the 'key: value' lines between a leading
\* '---' line and the next '---'.
extractFrontmatter(content) ==
  IF ~StartsWith(content, FrontmatterOpen) THEN <<>>
  ELSE LET rest == SubSeq(content, 5, Len(content))
           ends == {i \in 0..(Len(rest) - 4) : SubSeq(rest, i + 1, i + 4) = FrontmatterClose}
       IN IF ends = {} THEN <<>>
          ELSE LET e == CHOOSE i \in ends : \A j \in ends : i <= j
                   lines == Split(SubSeq(rest, 1, e), "\n")
                   good == SelectSeq(lines, LAMBDA l :
                             LET parts == Split(l, ":")
                             IN parts[1] # <<>> /\ Len(parts) >= 2)
               IN ObjectFromPairs(
                    [i \in 1..Len(good) |->
                       LET parts == Split(good[i], ":")
                       IN [key |-> Trim(parts[1]),
                           value |-> Trim(Join(Tail(parts), <<":">>))]])

\* ------------------------------------------------------------------------
\* NLPProcessor (the 'compromise' library is outside the repository: its
\* tagging is modelled for texts whose words are all content words)
\* ------------------------------------------------------------------------

\* doc.terms().out('array'): the white-space separated terms, in order.
RECURSIVE Terms(_)
Terms(text) ==
  LET t == TrimLeft(text)
  IN IF t = <<>> THEN <<>>
     ELSE LET n == CHOOSE k \in 1..Len(t) :
                     /\ \A j \in 1..k : ~IsSpace(t[j])
                     /\ (k = Len(t) \/ IsSpace(t[k + 1]))
          IN <<SubSeq(t, 1, n)>> \o Terms(SubSeq(t, n + 1, Len(t)))

PositiveWords ==
  { <<"g","o","o","d">>, <<"g","r","e","a","t">>,
    <<"e","x","c","e","l","l","e","n","t">>, <<"a","m","a","z","i","n","g">>,
    <<"w","o","n","d","e","r","f","u","l">> }

NegativeWords ==
  { <<"b","a","d">>, <<"t","e","r","r","i","b","l","e">>, <<"a","w","f","u","l">>,
    <<"h","o","r","r","i","b","l","e">>, <<"p","o","o","r">> }

\* NLPProcessor.analyzeSentiment.
analyzeSentiment(terms) ==
  LET positive == \E i \in DOMAIN terms : ToLower(terms[i]) \in PositiveWords
      negative == \E i \in DOMAIN terms : ToLower(terms[i]) \in NegativeWords
  IN IF positive /\ ~negative THEN 1
     ELSE IF negative /\ ~positive THEN -1
     ELSE 0

\* NLPProcessor.extractTopics at depth 'deep': the nouns, the verbs, the
\* adjectives and the matches of '#Noun+ (#Preposition #Noun+)?'. Every term
\* is a noun, so the match is the run of all the terms, as one phrase.
extractTopics(terms) ==
  terms \o (IF terms = <<>> THEN <<>> ELSE <<Join(terms, <<" ">>)>>)

\* NLPProcessor.processText. No person, place or organisation is among the
\* model's words; every term is a noun.
processText(text) ==
  LET terms == Terms(text)
  IN [tokens    |-> terms,
      entities  |-> <<>>,
      topics    |-> extractTopics(terms),
      sentiment |-> analyzeSentiment(terms)]

\* NLPProcessor.synonymMap, in insertion order.
synonymMap ==
  << [key |-> <<"t","i","t","l","e">>,
      synonyms |-> << <<"h","e","a","d","l","i","n","e">>,
                      <<"h","e","a","d","i","n","g">>,
                      <<"h","e","a","d","e","r">>,
                      <<"s","u","b","j","e","c","t">> >>],
     [key |-> <<"h","e","a","d","l","i","n","e">>,
      synonyms |-> << <<"t","i","t","l","e">>,
                      <<"h","e","a","d","i","n","g">>,
                      <<"h","e","a","d","e","r">>,
                      <<"s","u","b","j","e","c","t">> >>],
     [key |-> <<"a","r","t","i","c","l","e">>,
      synonyms |-> << <<"p","o","s","t">>,
                      <<"c","o","n","t","e","n","t">>,
                      <<"p","i","e","c","e">>,
                      <<"w","r","i","t","i","n","g">> >>],
     [key |-> <<"c","o","n","t","e","n","t">>,
      synonyms |-> << <<"a","r","t","i","c","l","e">>,
                      <<"p","o","s","t">>,
                      <<"t","e","x","t">>,
                      <<"m","a","t","e","r","i","a","l">> >>],
     [key |-> <<"n","o","t","e">>,
      synonyms |-> << <<"d","o","c","u","m","e","n","t">>,
                      <<"e","n","t","r","y">>,
                      <<"r","e","c","o","r","d">> >>],
     [key |-> <<"w","r","i","t","e">>,
      synonyms |-> << <<"c","o","m","p","o","s","e">>,
                      <<"a","u","t","h","o","r">>,
                      <<"c","r","e","a","t","e">>,
                      <<"d","r","a","f","t">> >>],
     [key |-> <<"c","r","e","a","t","e">>,
      synonyms |-> << <<"m","a","k","e">>,
                      <<"p","r","o","d","u","c","e">>,
                      <<"g","e","n","e","r","a","t","e">>,
                      <<"w","r","i","t","e">> >>],
     [key |-> <<"g","o","o","d">>,
      synonyms |-> << <<"g","r","e","a","t">>,
                      <<"e","x","c","e","l","l","e","n","t">>,
                      <<"e","f","f","e","c","t","i","v","e">>,
                      <<"p","o","w","e","r","f","u","l">> >>],
     [key |-> <<"i","d","e","a">>,
      synonyms |-> << <<"c","o","n","c","e","p","t">>,
                      <<"t","h","o","u","g","h","t">>,
                      <<"i","n","s","i","g","h","t">>,
                      <<"n","o","t","i","o","n">> >>] >>

\* synonymMap.get(term) || [].
Synonyms(term) ==
  IF \E i \in DOMAIN synonymMap : synonymMap[i].key = term
  THEN synonymMap[CHOOSE i \in DOMAIN synonymMap : synonymMap[i].key = term].synonyms
  ELSE <<>>

\* NLPProcessor.extractKeywords: the lower-cased nouns, verbs and adjectives
\* (no verb-noun phrase arises: every term is a noun).
extractKeywords(terms) == Dedupe([i \in 1..Len(terms) |-> ToLower(terms[i])])

\* NLPProcessor.findRelatedTerms: every term followed by its synonyms.
findRelatedTerms(terms) ==
  Dedupe(Flatten([i \in 1..Len(terms) |->
                    <<ToLower(terms[i])>> \o Synonyms(ToLower(terms[i]))]))

\* NLPProcessor.processQuery (no question, no imperative among the queries).
processQuery(q) ==
  LET terms == Terms(q)
  IN [intent       |-> "statement",
      keywords     |-> extractKeywords(terms),
      entities     |-> <<>>,
      relatedTerms |-> findRelatedTerms(terms)]

\* ------------------------------------------------------------------------
\* SearchIndex: ranking
\* ------------------------------------------------------------------------

\* emotionMap, in Object.entries order.
emotionMap ==
  << [emotion |-> <<"a","n","g","e","r">>,
      related |-> << <<"r","a","g","e">>,
                     <<"f","u","r","y">>,
                     <<"p","i","s","s","e","d","-","o","f","f">>,
                     <<"a","n","g","r","y">>,
                     <<"m","a","d">>,
                     <<"i","r","r","i","t","a","t","e","d">> >>],
     [emotion |-> <<"f","e","a","r">>,
      related |-> << <<"a","n","x","i","e","t","y">>,
                     <<"a","n","x","i","o","u","s">>,
                     <<"s","c","a","r","e","d">>,
                     <<"t","e","r","r","i","f","i","e","d">>,
                     <<"w","o","r","r","i","e","d">> >>],
     [emotion |-> <<"j","o","y">>,
      related |-> << <<"h","a","p","p","y">>,
                     <<"j","o","y","o","u","s">>,
                     <<"p","l","a","y">>,
                     <<"p","l","a","y","f","u","l">>,
                     <<"e","x","c","i","t","e","d">>,
                     <<"e","n","t","h","u","s","i","a","s","t","i","c">> >>],
     [emotion |-> <<"s","a","d","n","e","s","s">>,
      related |-> << <<"s","a","d">>,
                     <<"l","o","n","e","l","y">>,
                     <<"p","a","n","i","c">>,
                     <<"d","e","p","r","e","s","s","e","d">>,
                     <<"m","e","l","a","n","c","h","o","l","y">> >>],
     [emotion |-> <<"l","o","v","e">>,
      related |-> << <<"c","a","r","e">>,
                     <<"t","e","n","d","e","r">>,
                     <<"l","o","v","i","n","g">>,
                     <<"a","f","f","e","c","t","i","o","n">>,
                     <<"a","t","t","a","c","h","m","e","n","t">> >>],
     [emotion |-> <<"d","e","s","i","r","e">>,
      related |-> << <<"l","u","s","t">>,
                     <<"h","o","r","n","y">>,
                     <<"w","a","n","t","i","n","g">>,
                     <<"c","r","a","v","i","n","g">>,
                     <<"y","e","a","r","n","i","n","g">> >>] >>

\* A lookup that finds a cluster by its key only.
getRelatedTermsOfKey(term) ==
  LET lowerTerm == ToLower(term)
      hits == {i \in DOMAIN emotionMap : emotionMap[i].emotion = lowerTerm}
  IN IF hits = {} THEN <<>>
     ELSE LET i == CHOOSE h \in hits : \A g \in hits : h <= g
          IN <<emotionMap[i].emotion>> \o emotionMap[i].related

\* SearchIndex.getRelatedTerms: the first cluster whose key or member is the
\* lower-cased term.
getRelatedTerms(term) ==
  LET lowerTerm == ToLower(term)
      Hit(i) == \/ emotionMap[i].emotion = lowerTerm
                \/ \E r \in DOMAIN emotionMap[i].related :
                      ToLower(emotionMap[i].related[r]) = lowerTerm
      hits == {i \in DOMAIN emotionMap : Hit(i)}
  IN IF hits = {} THEN <<>>
     ELSE LET i == CHOOSE h \in hits : \A g \in hits : h <= g
          IN <<emotionMap[i].emotion>> \o emotionMap[i].related

\* The quantifiers of a regular expression (the members that occur in the
\* model's terms).
QuantifierChars == {"+", "*"}

\* new RegExp(`\\b${term}\\b`, 'i') throws a SyntaxError ('Nothing to
\* repeat'): the term is put into the pattern as it is, and a quantifier in
\* it follows the assertion \b or another quantifier.
RegExpThrows(term) ==
  \E i \in DOMAIN term :
     /\ term[i] \in QuantifierChars
     /\ (i = 1 \/ term[i - 1] \in QuantifierChars)

\* One pattern character against one text character under the 'i' flag;
\* '.' in the (unescaped) term is the regular expression wildcard.
MatchChar(pc, tc) == (pc = "." /\ tc # "\n") \/ LowerChar(pc) = LowerChar(tc)

\* The assertion \b at offset k of text (between text[k] and text[k+1]).
WordBoundaryAt(text, k) ==
  LET before == k >= 1 /\ k <= Len(text) /\ IsWordChar(text[k])
      after  == k + 1 >= 1 /\ k + 1 <= Len(text) /\ IsWordChar(text[k + 1])
  IN before # after

\* The term as a pattern that is valid: its characters that are not
\* quantifiers, each with the quantifier that follows it ("1" when none does).
PatternItems(term) ==
  LET atoms == SelectSeq([j \in 1..Len(term) |-> j], LAMBDA j : term[j] \notin QuantifierChars)
  IN [n \in 1..Len(atoms) |->
        [atom  |-> term[atoms[n]],
         quant |-> IF atoms[n] < Len(term) /\ term[atoms[n] + 1] \in QuantifierChars
                   THEN term[atoms[n] + 1] ELSE "1"]]

\* How many characters of text from offset pos on match the pattern
\* character pc one after the other.
RECURSIVE MatchRun(_, _, _)
MatchRun(pc, text, pos) ==
  IF pos < Len(text) /\ MatchChar(pc, text[pos + 1]) THEN 1 + MatchRun(pc, text, pos + 1) ELSE 0

\* The offsets at which a match of the items k, k+1, ... that starts at
\* offset pos may end: 'c+' takes one or more c, 'c*' none or more.
RECURSIVE MatchEnds(_, _, _, _)
MatchEnds(items, k, text, pos) ==
  IF k > Len(items) THEN {pos}
  ELSE LET run == MatchRun(items[k].atom, text, pos)
           counts == IF items[k].quant = "1" THEN {1} \cap (0..run)
                     ELSE IF items[k].quant = "+" THEN 1..run
                     ELSE 0..run
       IN UNION {MatchEnds(items, k + 1, text, pos + n) : n \in counts}

\* checkWordBoundary of calculateRelevanceScore:
\* new RegExp(`\\b${term}\\b`, 'i').test(text). A term without a
\* quantifier is matched character by character.
checkWordBoundary(text, term) ==
  IF \E j \in DOMAIN term : term[j] \in QuantifierChars
  THEN \E i \in 0..Len(text) :
          /\ WordBoundaryAt(text, i)
          /\ \E e \in MatchEnds(PatternItems(term), 1, text, i) : WordBoundaryAt(text, e)
  ELSE \E i \in 0..(Len(text) - Len(term)) :
          /\ \A j \in 1..Len(term) : MatchChar(term[j], text[i + j])
          /\ WordBoundaryAt(text, i)
          /\ WordBoundaryAt(text, i + Len(term))

\* file.processed.tokens.join(' ').toLowerCase().
ContentOf(file) == ToLower(Join(file.processed.tokens, <<" ">>))

\* A contribution whose table check is made only when the content gave
\* nothing.
TermScoreTableWithoutContent(file, content, lowerTerm) ==
  LET lowerFilename == ToLower(file.filename)
      headers == file.structuredContent.headers
  IN IF checkWordBoundary(lowerFilename, lowerTerm) THEN 4
     ELSE IF \E h \in DOMAIN headers : checkWordBoundary(ToLower(headers[h]), lowerTerm)
     THEN 6
     ELSE LET c == IF checkWordBoundary(content, lowerTerm) THEN 2
                   ELSE IF Includes(content, lowerTerm) THEN 1
                   ELSE 0
              t == IF c < 1 /\ \E k \in DOMAIN file.tableContent :
                                 checkWordBoundary(ToLower(file.tableContent[k]), lowerTerm)
                   THEN 4 ELSE 0
          IN c + t

\* The contribution of one term, doubled to stay in the integers
\* (0.5 is 1, 1 is 2, 2 is 4, 3 is 6).
TermScore2(file, content, lowerTerm) ==
  LET lowerFilename == ToLower(file.filename)
      headers == file.structuredContent.headers
  IN IF checkWordBoundary(lowerFilename, lowerTerm) THEN 4
     ELSE IF \E h \in DOMAIN headers : checkWordBoundary(ToLower(headers[h]), lowerTerm)
     THEN 6
     ELSE LET c == IF checkWordBoundary(content, lowerTerm) THEN 2
                   ELSE IF Includes(content, lowerTerm) THEN 1
                   ELSE 0
              t == IF c < 4 /\ \E k \in DOMAIN file.tableContent :
                                 checkWordBoundary(ToLower(file.tableContent[k]), lowerTerm)
                   THEN 4 ELSE 0
          IN c + t

RECURSIVE SumSeq(_)
SumSeq(xs) == IF xs = <<>> THEN 0 ELSE Head(xs) + SumSeq(Tail(xs))

\* The length cap of the normalisation, Math.min(content.length, 5000).
LengthCap == 5000

\* Math.log(n + 1), in millionths, for n = 1..80.
LnMicro ==
  <<
    693147, 1098612, 1386294, 1609438, 1791759, 1945910, 2079442, 2197225,
    2302585, 2397895, 2484907, 2564949, 2639057, 2708050, 2772589, 2833213,
    2890372, 2944439, 2995732, 3044522, 3091042, 3135494, 3178054, 3218876,
    3258097, 3295837, 3332205, 3367296, 3401197, 3433987, 3465736, 3496508,
    3526361, 3555348, 3583519, 3610918, 3637586, 3663562, 3688879, 3713572,
    3737670, 3761200, 3784190, 3806662, 3828641, 3850148, 3871201, 3891820,
    3912023, 3931826, 3951244, 3970292, 3988984, 4007333, 4025352, 4043051,
    4060443, 4077537, 4094345, 4110874, 4127134, 4143135, 4158883, 4174387,
    4189655, 4204693, 4219508, 4234107, 4248495, 4262680, 4276666, 4290459,
    4304065, 4317488, 4330733, 4343805, 4356709, 4369448, 4382027, 4394449
  >>

\* Math.log(n + 1) in millionths, for the content lengths of the model.
LogOfLength(n) == LnMicro[IF n < LengthCap THEN n ELSE LengthCap]

\* A score computed without the quick check of the content.
calculateRelevanceScoreNoQuickCheck(file, lowerSearchTerms) ==
  LET content == ContentOf(file)
  IN [raw2 |-> SumSeq([i \in 1..Len(lowerSearchTerms) |->
                         TermScore2(file, content, lowerSearchTerms[i])]),
      len  |-> Len(content)]

\* SearchIndex.calculateRelevanceScore. The score is the quotient
\* raw2 / 2 / Math.log(Math.min(len, 5000) + 1); it is kept as the pair
\* (raw2, len), and compared by ScoreGreater.
calculateRelevanceScore(file, lowerSearchTerms) ==
  LET content == ContentOf(file)
  IN IF ~\E i \in DOMAIN lowerSearchTerms : Includes(content, lowerSearchTerms[i])
     THEN [raw2 |-> 0, len |-> Len(content)]
     ELSE [raw2 |-> SumSeq([i \in 1..Len(lowerSearchTerms) |->
                               TermScore2(file, content, lowerSearchTerms[i])]),
           len  |-> Len(content)]

\* calculateRelevanceScore throws: the document passes the quick check and
\* checkWordBoundary is called with a term whose pattern is not valid.
calculateRelevanceScoreThrows(file, lowerSearchTerms) ==
  /\ \E i \in DOMAIN lowerSearchTerms : Includes(ContentOf(file), lowerSearchTerms[i])
  /\ \E i \in DOMAIN lowerSearchTerms : RegExpThrows(lowerSearchTerms[i])

\* score > 0.
ScorePositive(score) == score.raw2 > 0

\* The rounding of the double division raw2 / 2 / Math.log(len + 1), for
\* raw2 = 1..64 and the lengths len for which len + 1 is a power of 2, 3, 5,
\* 6 or 7: where the quotient lies, in units of the last place, among the
\* doubles around the exact quotient of raw2 / 2 by the natural logarithm.
\* Math.log(3) is 1.0986122886681096, one unit below the double nearest to
\* the logarithm, so length 2 has a row of its own; one row serves the other
\* lengths whose Math.log differ by a power of two.
DivisionUlps ==
  [len \in {1, 2, 3, 4, 5, 6, 7, 8, 15, 24, 26, 31, 35, 48, 63, 80} |->
     CASE len \in {1, 3, 15} ->
            << 2, 2, 2, 2, 2, 2, 3, 2, 2, 2, 3, 2, 3, 3, 2, 2, 2, 2, 2, 2, 3, 3, 2, 2, 2, 3, 3, 3, 2, 2, 2, 2,
               2, 2, 2, 2, 2, 2, 2, 2, 2, 3, 3, 3, 2, 2, 2, 2, 2, 2, 3, 3, 3, 3, 3, 3, 2, 2, 2, 2, 2, 2, 2, 2 >>
       [] len \in {7, 63} ->
            << 3, 3, 3, 3, 3, 3, 2, 3, 2, 3, 3, 3, 3, 2, 2, 3, 2, 2, 3, 3, 3, 3, 3, 3, 3, 3, 2, 2, 2, 2, 2, 3,
               3, 2, 2, 2, 2, 3, 3, 3, 3, 3, 3, 3, 3, 3, 3, 3, 3, 3, 3, 3, 3, 2, 2, 2, 2, 2, 2, 2, 2, 2, 3, 3 >>
       [] len \in {31} ->
            << 2, 2, 2, 2, 2, 2, 2, 2, 2, 2, 2, 2, 2, 2, 2, 2, 2, 2, 2, 2, 2, 2, 2, 2, 2, 2, 2, 2, 2, 2, 2, 2,
               2, 2, 2, 2, 2, 2, 2, 2, 2, 2, 2, 2, 2, 2, 2, 2, 2, 2, 2, 2, 2, 2, 2, 2, 2, 2, 2, 2, 2, 2, 3, 2 >>
       [] len \in {2} ->
            << 3, 3, 3, 3, 2, 3, 3, 3, 2, 2, 3, 3, 3, 3, 2, 3, 3, 2, 3, 2, 3, 3, 3, 3, 2, 3, 3, 3, 3, 2, 3, 3,
               3, 3, 4, 2, 2, 3, 3, 2, 3, 3, 2, 3, 3, 3, 2, 3, 3, 2, 3, 3, 3, 3, 3, 3, 3, 3, 3, 2, 3, 3, 3, 3 >>
       [] len \in {8, 80} ->
            << 1, 1, 2, 1, 1, 2, 2, 1, 1, 1, 1, 2, 2, 2, 1, 1, 1, 1, 2, 1, 2, 1, 2, 2, 1, 2, 1, 2, 1, 1, 1, 1,
               2, 1, 2, 1, 1, 2, 2, 1, 2, 2, 1, 1, 2, 2, 1, 2, 2, 1, 1, 2, 2, 1, 1, 2, 1, 1, 2, 1, 1, 1, 2, 1 >>
       [] len \in {26} ->
            << 2, 2, 2, 2, 2, 2, 1, 2, 2, 2, 2, 2, 2, 1, 2, 2, 2, 2, 2, 2, 2, 2, 1, 2, 2, 2, 1, 1, 2, 2, 2, 2,
               2, 2, 2, 2, 2, 2, 2, 2, 2, 2, 2, 2, 1, 1, 2, 2, 2, 2, 2, 2, 2, 1, 2, 1, 2, 2, 2, 2, 2, 2, 2, 2 >>
       [] len \in {4, 24} ->
            << 2, 2, 2, 2, 3, 2, 2, 2, 3, 3, 2, 2, 3, 2, 2, 2, 2, 3, 2, 3, 2, 2, 3, 2, 3, 3, 2, 2, 3, 2, 2, 2,
               3, 2, 2, 3, 2, 2, 3, 3, 2, 2, 3, 2, 2, 3, 3, 2, 2, 3, 2, 3, 2, 2, 2, 2, 2, 3, 3, 2, 2, 2, 2, 2 >>
       [] len \in {5, 35} ->
            << 2, 2, 2, 2, 2, 2, 2, 2, 2, 2, 2, 2, 3, 2, 3, 2, 2, 2, 2, 2, 2, 2, 2, 2, 3, 3, 2, 2, 2, 3, 3, 2,
               2, 2, 2, 2, 2, 2, 2, 2, 2, 2, 2, 2, 2, 2, 2, 2, 3, 3, 3, 3, 2, 2, 2, 2, 2, 2, 3, 3, 3, 3, 3, 2 >>
       [] len \in {6, 48} ->
            << 2, 2, 3, 2, 2, 3, 2, 2, 2, 2, 2, 3, 2, 2, 2, 2, 2, 2, 3, 2, 2, 2, 2, 3, 2, 2, 2, 2, 3, 2, 2, 2,
               2, 2, 3, 2, 2, 3, 2, 2, 3, 2, 2, 2, 3, 2, 2, 3, 2, 2, 3, 2, 2, 2, 3, 2, 2, 3, 2, 2, 3, 2, 3, 2 >>]

\* n is b, b * b, b * b * b, ...
RECURSIVE IsPowerOf(_, _)
IsPowerOf(n, b) == n = b \/ (n > b /\ n % b = 0 /\ IsPowerOf(n \div b, b))

\* The exponent k of n = b ^ k.
RECURSIVE ExponentOf(_, _)
ExponentOf(n, b) == IF n = b THEN 1 ELSE 1 + ExponentOf(n \div b, b)

\* n >= 2 as a power of the least possible base: n = base ^ exp.
AsPower(n) ==
  LET base == CHOOSE b \in 2..n : IsPowerOf(n, b) /\ \A c \in 2..(b - 1) : ~IsPowerOf(n, c)
  IN [base |-> base, exp |-> ExponentOf(n, base)]

\* len + 1 as a power, for the content lengths of the model.
PowerOfLength == [len \in DOMAIN LnMicro |-> AsPower(len + 1)]

\* The two quotients are the same real number: the lengths plus one are
\* powers of one base and the raw scores are in the ratio of the exponents.
SameQuotient(a, b) ==
  LET pa == PowerOfLength[a.len]
      pb == PowerOfLength[b.len]
  IN pa.base = pb.base /\ a.raw2 * pb.exp = b.raw2 * pa.exp

\* Where the double quotient of a score lies among the doubles next to its
\* exact value.
UlpsOf(score) ==
  IF score.len \in DOMAIN DivisionUlps THEN DivisionUlps[score.len][score.raw2] ELSE 0

\* a.score > b.score, both positive, as the doubles compare: two quotients
\* that are the same real number compare as their roundings do, two others
\* as the real numbers do.
ScoreGreater(a, b) ==
  IF SameQuotient(a, b)
  THEN UlpsOf(a) > UlpsOf(b)
  ELSE a.raw2 * LogOfLength(b.len) > b.raw2 * LogOfLength(a.len)

\* A descending sort that puts an element before the elements equal to it.
RECURSIVE SortByScoreTiesReversed(_)
SortByScoreTiesReversed(rs) ==
  IF rs = <<>> THEN <<>>
  ELSE LET sorted == SortByScoreTiesReversed(SubSeq(rs, 1, Len(rs) - 1))
           x == rs[Len(rs)]
           k == Cardinality({i \in DOMAIN sorted : ScoreGreater(sorted[i].score, x.score)})
       IN SubSeq(sorted, 1, k) \o <<x>> \o SubSeq(sorted, k + 1, Len(sorted))

\* Array.prototype.sort((a, b) => b.score - a.score): stable, descending.
RECURSIVE SortByScore(_)
SortByScore(rs) ==
  IF rs = <<>> THEN <<>>
  ELSE LET sorted == SortByScore(SubSeq(rs, 1, Len(rs) - 1))
           x == rs[Len(rs)]
           \* x goes after every element that is not smaller than it
           k == Cardinality({i \in DOMAIN sorted : ~ScoreGreater(x.score, sorted[i].score)})
       IN SubSeq(sorted, 1, k) \o <<x>> \o SubSeq(sorted, k + 1, Len(sorted))

\* The most documents the ranking scan collects (results.length >= 100).
ScanCap == 100

\* The most documents a search returns (slice(0, 50)).
ResultLimit == 50

\* A scan that collects every document with score > 0, with no cap.
RECURSIVE ScanIndexNoCap(_, _, _)
ScanIndexNoCap(idx, lowerSearchTerms, acc) ==
  IF idx = <<>> THEN acc
  ELSE LET score == calculateRelevanceScore(Head(idx), lowerSearchTerms)
       IN ScanIndexNoCap(Tail(idx), lowerSearchTerms,
                         IF ScorePositive(score)
                         THEN Append(acc, [file |-> Head(idx), score |-> score])
                         ELSE acc)

\* The scan of rankResults over index.values(): documents with score > 0,
\* in iteration order, until ScanCap of them are collected.
RECURSIVE ScanIndex(_, _, _)
ScanIndex(idx, lowerSearchTerms, acc) ==
  IF idx = <<>> \/ Len(acc) >= ScanCap THEN acc
  ELSE LET score == calculateRelevanceScore(Head(idx), lowerSearchTerms)
       IN ScanIndex(Tail(idx), lowerSearchTerms,
                    IF ScorePositive(score)
                    THEN Append(acc, [file |-> Head(idx), score |-> score])
                    ELSE acc)

\* A slice that keeps everything.
TakeAll(xs, n) == xs

\* Array.prototype.slice(0, n).
Take(xs, n) == SubSeq(xs, 1, IF Len(xs) < n THEN Len(xs) ELSE n)

\* new Set([...keywords, ...relatedTerms, ...keywords.flatMap(getRelatedTerms)]),
\* lower-cased.
SearchTerms(pq) ==
  LET terms == Dedupe(pq.keywords \o pq.relatedTerms
                      \o Flatten([i \in 1..Len(pq.keywords) |->
                                     getRelatedTerms(pq.keywords[i])]))
  IN [i \in 1..Len(terms) |-> ToLower(terms[i])]

\* SearchIndex.rankResults.
rankResults(idx, pq) ==
  LET lowerSearchTerms == SearchTerms(pq)
  IN IF lowerSearchTerms = <<>> THEN <<>>
     ELSE LET results == ScanIndex(idx, lowerSearchTerms, <<>>)
              top == Take(SortByScore(results), ResultLimit)
          IN [i \in 1..Len(top) |-> top[i].file]

\* The shortest query that is searched (query.length < 2 returns []).
MinQueryLength == 2

\* SearchIndex.search throws: the scan of rankResults comes to a document for
\* which calculateRelevanceScore throws (every document before it has score
\* 0, so the scan has not stopped).
searchThrows(idx, q) ==
  /\ Len(q) >= MinQueryLength
  /\ LET lowerSearchTerms == SearchTerms(processQuery(q))
     IN /\ lowerSearchTerms # <<>>
        /\ \E i \in DOMAIN idx : calculateRelevanceScoreThrows(idx[i], lowerSearchTerms)

\* A search that ranks whatever the length of the query.
searchAnyLength(idx, q) == Take(rankResults(idx, processQuery(q)), ResultLimit)

\* SearchIndex.search.
search(idx, q) ==
  IF Len(q) < MinQueryLength THEN <<>>
  ELSE Take(rankResults(idx, processQuery(q)), ResultLimit)

\* ------------------------------------------------------------------------
\* The vault and the inputs of the model
\* ------------------------------------------------------------------------

\* The number of files of the vault.
NumFiles == 2

\* The number of texts a file of the vault may hold.
NumTexts == 2

\* The largest modification time of a file.
MaxMtime == 2

\* The most handler calls of indexFile in flight at once.
MaxOps == 2

\* The most calls of buildIndex that go past its guard, the run of onload
\* among them: the plugin is followed up to its second run, and a click on
\* 'Save and Reindex' that would start a third is not part of the model.
MaxRuns == 2

FileIds == 1..NumFiles

TextIds == 1..NumTexts

\* The paths of the vault's files (file f is at PathCatalog[f]) and of the
\* documents of the search scenarios.
PathCatalog ==
  << <<"B","u","d","g","e","t",".","m","d">>,
     <<"P","r","i","v","a","t","e","/","N","o","t","e","s",".","m","d">>,
     <<"R","a","g","e",".","m","d">>,
     <<"B","u","d","g","e","t"," ","R","e","p","o","r","t",".","m","d">>,
     <<"M","e","e","t","i","n","g"," ","N","o","t","e","s",".","m","d">>,
     <<"F","u","r","y",".","m","d">>,
     <<"R","a","g","e",".","t","x","t">> >>

TextCatalog ==
  << <<"#"," ","B","u","d","g","e","t","\n","t","h","e"," ","b","u","d","g","e","t"," ","p","l","a","n">>,
     <<"q","u","a","r","t","e","r","l","y"," ","f","i","n","a","n","c","e","s"," ","#","p","r","i","v","a","t","e">>,
     <<"s","o"," ","m","a","d"," ","t","o","d","a","y">>,
     <<"q","u","a","r","t","e","r","l","y"," ","f","i","n","a","n","c","e","s">>,
     <<"W","e"," ","d","i","s","c","u","s","s","e","d"," ","t","h","e"," ","*","*","b","u","d","g","e","t","*","*"," ","f","o","r"," ","Q","3">>,
     <<"#"," ","B","u","d","g","e","t">>,
     <<"#"," ","F","u","r","y","\n","n","o","m","a","d"," ","a","n","g","r","y"," ","c","+","+","\n","|"," ","m","o","o","d"," ","|","\n","|"," ","-","-","-"," ","|","\n","|"," ","i","r","r","i","t","a","t","e","d"," ","|">> >>


Slash == "/"

\* TFile.basename: the file name without its folders and its extension.
Basename(path) ==
  LET segs == Split(path, Slash)
      name == segs[Len(segs)]
      dots == {i \in 1..Len(name) : name[i] = "."}
  IN IF dots = {} THEN name
     ELSE SubSeq(name, 1, (CHOOSE i \in dots : \A j \in dots : j <= i) - 1)

\* What indexFile computes from a text, for every text of the catalogue.
Parsed ==
  [t \in DOMAIN TextCatalog |->
     LET content == TextCatalog[t]
         structuredContent == parseMarkdownContent(content)
     IN [structuredContent |-> structuredContent,
         tableContent      |-> FlattenTables(structuredContent.tables),
         processed         |-> processText(content),
         tags              |-> extractTags(content),
         frontmatter       |-> extractFrontmatter(content)]]

\* The exclusion settings the settings tab may hold.
NoExclusions == [folders |-> <<>>, tags |-> <<>>]

SomeExclusions ==
  [folders |-> << <<"P","r","i","v","a","t","e">> >>,
   tags    |-> << <<"p","r","i","v","a","t","e">> >>]

ExclusionChoices == {NoExclusions, SomeExclusions}

\* ------------------------------------------------------------------------
\* State
\* ------------------------------------------------------------------------

VARIABLES
  files,          \* the vault: file -> [exists, mtime, text]
  index,          \* SearchIndex.index: the Map's entries in insertion order
  exclusions,     \* the exclusion rules held by the SearchIndex
  settings,       \* MyPlugin.settings: [isVaultIndexed, excluded]
  isIndexing,     \* MyPlugin.isIndexing
  bars,           \* the progress containers of buildIndex in document.body
  started,        \* the calls of buildIndex that went past its guard, so far
  unloaded,       \* onunload has run
  watchers,       \* the handlers registered with the vault, for each notification
  pc,             \* where MyPlugin.onload stands, from its await of loadSettings on
  ops,            \* the calls of indexFile made by handlers and not yet returned
  scans,          \* the runs of buildIndex / buildInitialIndex not yet returned
  notice,         \* the last Notice of buildIndex, with the run's history
  last,           \* history: the last operation on the index
  query,          \* the last query searched
  results,        \* what that search returned
  searchError     \* the error that search threw, "none" when it returned

vars == <<files, index, exclusions, settings, isIndexing, bars, started, unloaded,
          watchers, pc, ops, scans, notice, last, query, results, searchError>>

\* TFile.path of file f, as it is now.
PathOf(f) == files[f].path

\* TFile.extension: what follows the last dot of the file name.
Extension(path) ==
  LET segs == Split(path, Slash)
      name == segs[Len(segs)]
      dots == {i \in 1..Len(name) : name[i] = "."}
  IN IF dots = {} THEN <<>>
     ELSE SubSeq(name, (CHOOSE i \in dots : \A j \in dots : j <= i) + 1, Len(name))

\* file.extension === 'md'.
IsMarkdown(path) == Extension(path) = <<"m", "d">>

\* ---- the Map of the index ----------------------------------------------

\* Map.prototype.has.
MapHas(m, key) == \E i \in DOMAIN m : m[i].path = key

\* Map.prototype.get (of a key the map has).
MapGet(m, key) == m[CHOOSE i \in DOMAIN m : m[i].path = key]

\* A set that appends whether or not the key is present.
MapSetAppends(m, key, value) == Append(m, value)

\* Map.prototype.set: a present key keeps its place, a new one goes last.
MapSet(m, key, value) ==
  IF MapHas(m, key)
  THEN [i \in DOMAIN m |-> IF m[i].path = key THEN value ELSE m[i]]
  ELSE Append(m, value)

\* A delete that empties the map.
MapDeleteAll(m, key) == <<>>

\* Map.prototype.delete.
MapDelete(m, key) == SelectSeq(m, LAMBDA r : r.path # key)

\* The IndexedFile that indexFile builds from the text it read; lastModified
\* is file.stat.mtime as it is when the record is built. srcMtime is history:
\* the modification time the file had when the text was read.
IndexedFile(path, mtime, t, srcMtime) ==
  [path              |-> path,
   filename          |-> Basename(path),
   lastModified      |-> mtime,
   processed         |-> Parsed[t].processed,
   tags              |-> Parsed[t].tags,
   frontmatter       |-> Parsed[t].frontmatter,
   tableContent      |-> Parsed[t].tableContent,
   structuredContent |-> Parsed[t].structuredContent,
   srcMtime          |-> srcMtime]

\* A store in steps: over an existing record, only the analysis and the
\* modification time are written.
indexFileStoreInSteps(idx, path, mtime, t, srcMtime) ==
  IF MapHas(idx, path)
  THEN MapSet(idx, path, [MapGet(idx, path) EXCEPT !.processed = Parsed[t].processed,
                                                   !.lastModified = mtime,
                                                   !.srcMtime = srcMtime])
  ELSE MapSet(idx, path, IndexedFile(path, mtime, t, srcMtime))

\* indexFile after its await: parse, analyse and this.index.set(...).
indexFileStore(idx, path, mtime, t, srcMtime) ==
  MapSet(idx, path, IndexedFile(path, mtime, t, srcMtime))

\* A test that skips whenever a record exists, whatever its lastModified.
updateFileSkipsAnyRecord(idx, path, mtime) == MapHas(idx, path)

\* updateFile's test: a record exists and its lastModified is the file's mtime.
updateFileSkips(idx, path, mtime) ==
  MapHas(idx, path) /\ MapGet(idx, path).lastModified = mtime

\* removeFile.
removeFile(idx, path) == MapDelete(idx, path)

\* SearchIndex.isFileIndexed. main.ts calls it (380, 418); searchIndex.ts
\* does not define it, and it is taken from the specification.
isFileIndexed(idx, path) == MapHas(idx, path)

\* SearchIndex.setExclusions: the rules become active. main.ts calls it
\* (206, 261); searchIndex.ts does not define it, and it is taken from the
\* specification.
setExclusions(excluded) == excluded

RemoveAt(xs, i) == SubSeq(xs, 1, i - 1) \o SubSeq(xs, i + 1, Len(xs))

\* this.vault.getMarkdownFiles(): the markdown files that exist.
RECURSIVE MarkdownFilesFrom(_, _)
MarkdownFilesFrom(fs, f) ==
  IF f > NumFiles THEN <<>>
  ELSE (IF fs[f].exists /\ IsMarkdown(fs[f].path) THEN <<f>> ELSE <<>>)
       \o MarkdownFilesFrom(fs, f + 1)

getMarkdownFiles(fs) == MarkdownFilesFrom(fs, 1)

\* No handler is registered.
\* The progress containers that buildIndex appended to document.body: current
\* is the one this.progressBar points to, stale is one that no field points to
\* any more. The Cancel button of each calls cancelIndexing.
NoBars == [current |-> FALSE, stale |-> FALSE]

\* buildIndex appends a container and assigns this.progressBar: the container
\* of an earlier run stays in the document.
BarCreated(b) == [current |-> TRUE, stale |-> b.stale \/ b.current]

\* 'if (this.progressBar) { this.progressBar.parentElement?.remove();
\* this.progressBar = null; }' of buildIndex's 'finally' and of onunload.
BarRemoved(b) == [b EXCEPT !.current = FALSE]

NoWatchers == [modify |-> 0, create |-> 0, delete |-> 0, rename |-> 0]

\* setupFileWatchers: one more handler for each of the four notifications;
\* the handlers registered before stay.
Registered(w) ==
  [modify |-> w.modify + 1, create |-> w.create + 1,
   delete |-> w.delete + 1, rename |-> w.rename + 1]

\* onunload's this.app.vault.offref(this.fileWatcher): this.fileWatcher is the
\* 'modify' handler of the last call of setupFileWatchers, and the only
\* reference that is kept.
Unregistered(w) == [w EXCEPT !.modify = IF @ > 0 THEN @ - 1 ELSE 0]

NoNotice ==
  [text |-> "none", cancelled |-> FALSE, wrote |-> {}, failed |-> {}, total |-> 0,
   processed |-> 0]

NoLast ==
  [act |-> "none", path |-> <<>>, replaced |-> FALSE, by |-> "none",
   afterCancel |-> FALSE, excluded |-> FALSE, from |-> <<>>]

NoQuery == <<>>

\* onload has been called and stands at 'await this.loadSettings()': nothing
\* loaded, nothing indexed.
Init ==
  /\ files = [f \in FileIds |-> [exists |-> TRUE, mtime |-> 1, text |-> 1, path |-> PathCatalog[f]]]
  /\ index = <<>>
  /\ exclusions = NoExclusions
  /\ settings = [isVaultIndexed |-> FALSE, excluded |-> NoExclusions]
  /\ isIndexing = FALSE
  /\ bars = NoBars
  /\ started = 0
  /\ unloaded = FALSE
  /\ watchers = NoWatchers
  /\ pc = "init"
  /\ ops = <<>>
  /\ scans = <<>>
  /\ notice = NoNotice
  /\ last = NoLast
  /\ query = NoQuery
  /\ results = <<>>
  /\ searchError = "none"

\* The plugin after onload on a vault not yet indexed, the modal declined:
\* the settings are loaded and applied, the handlers registered once.
InitLoaded ==
  /\ files = [f \in FileIds |-> [exists |-> TRUE, mtime |-> 1, text |-> 1, path |-> PathCatalog[f]]]
  /\ index = <<>>
  /\ exclusions \in ExclusionChoices
  /\ settings = [isVaultIndexed |-> FALSE, excluded |-> exclusions]
  /\ isIndexing = FALSE
  /\ bars = NoBars
  /\ started = 0
  /\ unloaded = FALSE
  /\ watchers = Registered(NoWatchers)
  /\ pc = "loaded"
  /\ ops = <<>>
  /\ scans = <<>>
  /\ notice = NoNotice
  /\ last = NoLast
  /\ query = NoQuery
  /\ results = <<>>
  /\ searchError = "none"
\* ------------------------------------------------------------------------
\* Exclusion rules, as the settings tab describes them
\* ------------------------------------------------------------------------

\* The path is under the folder: the folder, then '/', case-insensitively.
UnderFolder(path, folder) ==
  StartsWith(ToLower(path), ToLower(folder) \o <<Slash>>)

\* The text carries '#' + tag, case-insensitively.
CarriesTag(t, tag) ==
  \E i \in DOMAIN Parsed[t].tags : Parsed[t].tags[i] = <<"#">> \o ToLower(tag)

\* The document at path with text t matches a rule of excluded.
MatchesExclusion(path, t, excluded) ==
  \/ \E i \in DOMAIN excluded.folders : UnderFolder(path, excluded.folders[i])
  \/ \E i \in DOMAIN excluded.tags : CarriesTag(t, excluded.tags[i])

\* ------------------------------------------------------------------------
\* buildIndex and buildInitialIndex
\* ------------------------------------------------------------------------

\* A loop whose catch lets the errors of indexFile out.
CaughtOnlyFromCallback(err) == err = "Indexing cancelled"

\* The catch of buildInitialIndex's loop (lines 108-111) takes every error
\* thrown in the loop body, the progress callback's included.
CaughtByLoop(err) == err \in {"read", "analysis", "Indexing cancelled"}

\* The progress callback of buildIndex throws when isIndexing is false.
ProgressCallbackThrows(indexing) == ~indexing

\* Run number run of buildIndex, awaiting buildInitialIndex: at the first read
\* of its loop, or, over a vault without documents, before its return.
NewScan(fs, caller, run) ==
  [files     |-> getMarkdownFiles(fs),
   pos       |-> 1,
   phase     |-> IF getMarkdownFiles(fs) = <<>> THEN "empty" ELSE "reading",
   run       |-> run,     \* history: the number of this run
   text      |-> 0,
   srcMtime  |-> 0,
   caller    |-> caller,
   cancelled |-> FALSE,   \* history: cancelIndexing ran during this run
   cancelPos |-> 0,       \* history: the document in hand when it ran
   processed |-> 0,       \* 'processed': progress was last reported as processed / total
   wrote     |-> {},      \* history: the documents this run has stored
   failed    |-> {}]      \* history: the documents whose indexFile threw

\* A 'finally' that leaves the flag as it is.
FinallyKeepsFlag(flag) == flag

\* The 'finally' of buildIndex: this.isIndexing = false.
FinallyResetsFlag(flag) == FALSE

\* buildIndex returns: the Notice, 'finally', and what its caller does up to
\* its next await (onload sets isVaultIndexed and awaits saveSettings).
\* text is "Indexing complete" after buildInitialIndex returned, and
\* "Indexing cancelled" or "Error building search index" after it threw; b is
\* the progress containers when 'finally' runs.
BuildIndexReturns(sc, rest, text, b) ==
  /\ scans' = rest
  /\ isIndexing' = FinallyResetsFlag(isIndexing)
  /\ bars' = BarRemoved(b)
  /\ notice' = [text |-> text, cancelled |-> sc.cancelled,
                wrote |-> sc.wrote, failed |-> sc.failed, total |-> Len(sc.files),
                processed |-> sc.processed]
  /\ LET reg == IF text = "Indexing complete" THEN Registered(watchers) ELSE watchers
     IN IF sc.caller = "onload"
        THEN /\ settings' = [settings EXCEPT !.isVaultIndexed = TRUE]
             /\ watchers' = reg
             /\ pc' = "saving"
        ELSE /\ watchers' = reg
             /\ UNCHANGED <<settings, pc>>

\* The loop of buildInitialIndex after the body for document sc.pos ended,
\* normally (err = "none") or by throwing err.
ScanNext(s, sc, err) ==
  IF err = "none" \/ CaughtByLoop(err)
  THEN IF sc.pos < Len(sc.files)
       THEN /\ scans' = [scans EXCEPT ![s] =
                           [sc EXCEPT !.pos = @ + 1, !.phase = "reading",
                                      !.text = 0, !.srcMtime = 0]]
            /\ UNCHANGED <<isIndexing, bars, watchers, settings, pc, notice>>
       ELSE BuildIndexReturns(sc, RemoveAt(scans, s), "Indexing complete", bars)
  ELSE BuildIndexReturns(sc, RemoveAt(scans, s),
                         IF err = "Indexing cancelled" THEN "Indexing cancelled"
                         ELSE "Error building search index", bars)

\* MyPlugin.buildIndex, up to its first await.
BuildIndex(caller) ==
  IF isIndexing
  THEN /\ notice' = [text |-> "Indexing is already in progress", cancelled |-> FALSE,
                     wrote |-> {}, failed |-> {}, total |-> 0, processed |-> 0]
       /\ IF caller = "onload"
          THEN /\ settings' = [settings EXCEPT !.isVaultIndexed = TRUE]
               /\ pc' = "saving"
               /\ UNCHANGED watchers
          ELSE UNCHANGED <<settings, watchers, pc>>
       /\ UNCHANGED <<isIndexing, bars, started, exclusions, scans>>
  ELSE /\ exclusions' = setExclusions(settings.excluded)
       /\ scans' = Append(scans, NewScan(files, caller, started + 1))
       /\ started' = started + 1
       /\ isIndexing' = TRUE
       /\ bars' = BarCreated(bars)
       /\ notice' = notice
       /\ IF caller = "onload"
          THEN pc' = "building" /\ UNCHANGED <<settings, watchers>>
          ELSE UNCHANGED <<settings, watchers, pc>>

\* MyPlugin.onload from loadSettings resolving up to the modal, or, for an
\* indexed vault, to its end.
Onload ==
  /\ pc = "init"
  /\ \E indexed \in BOOLEAN, excluded \in ExclusionChoices :
       LET loaded == [isVaultIndexed |-> indexed, excluded |-> excluded]
       IN IF ~indexed
          THEN /\ settings' = loaded
               /\ exclusions' = setExclusions(excluded)
               /\ pc' = "modal"
               /\ UNCHANGED <<isIndexing, bars, started, watchers, scans, notice>>
          ELSE \* buildIndex() is not awaited; setupFileWatchers follows
               /\ settings' = loaded
               /\ exclusions' = setExclusions(excluded)
               /\ pc' = "loaded"
               /\ scans' = Append(scans, NewScan(files, "background", started + 1))
               /\ started' = started + 1
               /\ isIndexing' = TRUE
               /\ bars' = BarCreated(bars)
               /\ watchers' = Registered(watchers)
               /\ UNCHANGED notice
  /\ UNCHANGED <<files, index, unloaded, ops, last, query, results, searchError>>

\* The choice made in the IndexingModal that onload opened.
ModalChoice(shouldIndex) ==
  /\ pc = "modal"
  /\ IF shouldIndex
     THEN BuildIndex("onload")
     ELSE /\ watchers' = Registered(watchers)
          /\ pc' = "loaded"
          /\ UNCHANGED <<settings, isIndexing, bars, started, exclusions, scans, notice>>
  /\ UNCHANGED <<files, index, unloaded, ops, last, query, results, searchError>>

\* The IndexingModal is closed without a choice (Escape, or a click beside
\* it): the promise of waitForChoice is never resolved, and onload stays at
\* its await.
ModalClosed ==
  /\ pc = "modal"
  /\ pc' = "closed"
  /\ UNCHANGED <<files, index, exclusions, settings, isIndexing, bars, started, unloaded,
                 watchers, ops, scans, notice, last, query, results, searchError>>

\* 'await this.saveSettings()' of onload settles, resolved or rejected (the
\* rejection is caught): onload goes on to setupFileWatchers() and returns.
OnloadSaved ==
  /\ pc = "saving"
  /\ watchers' = Registered(watchers)
  /\ pc' = "loaded"
  /\ UNCHANGED <<files, index, exclusions, settings, isIndexing, bars, started, unloaded,
                 ops, scans, notice, last, query, results, searchError>>

\* The texts typed into the text areas of the settings tab: a folder on a
\* line of its own between blanks, and the tags cleared.
FolderTexts == { <<" ","P","r","i","v","a","t","e","\n">> }

TagTexts == { <<>> }

\* value.split('\n').map(f => f.trim()).filter(f => f.length > 0)
ParseLines(value) ==
  LET parts == Lines(value)
  IN SelectSeq([i \in DOMAIN parts |-> Trim(parts[i])], LAMBDA f : Len(f) > 0)

\* Where onload stands once the settings tab has been usable: addCommands has
\* added it and the modal of onload is not, or no more, in front of it.
TabUsable == pc \in {"closed", "building", "saving", "loaded"}

\* onChange of the 'Excluded Folders' text area: the setting is assigned and
\* not saved.
ExcludedFoldersChanged(value) ==
  /\ TabUsable
  /\ settings' = [settings EXCEPT !.excluded.folders = ParseLines(value)]
  /\ UNCHANGED <<files, index, exclusions, isIndexing, bars, started, unloaded, watchers,
                 pc, ops, scans, notice, last, query, results, searchError>>

\* onChange of the 'Excluded Tags' text area.
ExcludedTagsChanged(value) ==
  /\ TabUsable
  /\ settings' = [settings EXCEPT !.excluded.tags = ParseLines(value)]
  /\ UNCHANGED <<files, index, exclusions, isIndexing, bars, started, unloaded, watchers,
                 pc, ops, scans, notice, last, query, results, searchError>>

\* The handler of a click on 'Save and Reindex', from saveSettings resolving
\* on: buildIndex is called. The click was made on a tab that was usable; the
\* handler goes on when the plugin has been disabled since. It disables the
\* button it was clicked on; a tab displayed again holds a new button.
SaveAndReindex ==
  /\ TabUsable
  /\ isIndexing \/ started < MaxRuns
  /\ BuildIndex("button")
  /\ UNCHANGED <<files, index, unloaded, ops, last, query, results, searchError>>

\* MyPlugin.onunload, whenever the plugin is disabled after onload was
\* called, its await of loadSettings included: the last 'modify' handler is
\* removed, if there is one, and the progress container that this.progressBar
\* points to. onload, if it stands at an await, and the runs of buildIndex in
\* progress go on.
Onunload ==
  /\ ~unloaded
  /\ unloaded' = TRUE
  /\ watchers' = Unregistered(watchers)
  /\ bars' = BarRemoved(bars)
  /\ UNCHANGED <<files, index, exclusions, settings, isIndexing, started, pc, ops, scans,
                 notice, last, query, results, searchError>>

\* MyPlugin.cancelIndexing, from the Cancel button of a progress container
\* that is in the document.
CancelIndexing ==
  /\ scans # <<>>
  /\ bars.current \/ bars.stale
  /\ isIndexing' = FALSE
  /\ scans' = [s \in DOMAIN scans |->
                 IF scans[s].cancelled THEN scans[s]
                 ELSE [scans[s] EXCEPT !.cancelled = TRUE, !.cancelPos = scans[s].pos]]
  /\ UNCHANGED <<files, index, exclusions, settings, bars, started, unloaded, watchers,
                 pc, ops, notice, last, query, results, searchError>>

\* buildInitialIndex returns over a vault without documents: its loop has no
\* turn.
ScanEmpty(s) ==
  /\ scans[s].phase = "empty"
  /\ BuildIndexReturns(scans[s], RemoveAt(scans, s), "Indexing complete", bars)
  /\ UNCHANGED <<files, index, exclusions, started, unloaded, ops, last, query, results,
                 searchError>>

\* vault.cachedRead resolves for the document a run of buildInitialIndex has
\* in hand.
ScanRead(s) ==
  /\ scans[s].phase = "reading"
  /\ files[scans[s].files[scans[s].pos]].exists
  /\ LET f == scans[s].files[scans[s].pos]
     IN scans' = [scans EXCEPT ![s] = [@ EXCEPT !.phase = "read",
                                                !.text = files[f].text,
                                                !.srcMtime = files[f].mtime]]
  /\ UNCHANGED <<files, index, exclusions, settings, isIndexing, bars, started, watchers,
                 pc, unloaded, ops, notice, last, query, results, searchError>>

\* indexFile throws inside buildInitialIndex: the read of a file that is gone
\* rejects, or parsing or the analysis of the text throws.
ScanFail(s) ==
  /\ \/ scans[s].phase = "reading" /\ ~files[scans[s].files[scans[s].pos]].exists
     \/ scans[s].phase = "read"
  /\ LET sc  == scans[s]
         err == IF sc.phase = "reading" THEN "read" ELSE "analysis"
     IN /\ ScanNext(s, [sc EXCEPT !.failed = @ \cup {sc.pos}], err)
        /\ last' = [act |-> "failed", path |-> PathOf(sc.files[sc.pos]), replaced |-> FALSE,
                    by |-> "scan", afterCancel |-> sc.cancelled /\ sc.pos > sc.cancelPos,
                    excluded |-> FALSE, from |-> <<>>]
  /\ UNCHANGED <<files, index, exclusions, started, unloaded, ops, query, results,
                 searchError>>

\* indexFile stores the record inside buildInitialIndex; then processed++,
\* the progress callback, and the loop's next turn.
ScanFinish(s) ==
  /\ scans[s].phase = "read"
  /\ LET sc   == scans[s]
         f    == sc.files[sc.pos]
         path == PathOf(f)
     IN /\ index' = indexFileStore(index, path, files[f].mtime, sc.text, sc.srcMtime)
        /\ last' = [act |-> "indexed", path |-> path, replaced |-> MapHas(index, path),
                    by |-> "scan", afterCancel |-> sc.cancelled /\ sc.pos > sc.cancelPos,
                    excluded |-> MatchesExclusion(path, sc.text, exclusions), from |-> <<>>]
        /\ ScanNext(s, [sc EXCEPT !.wrote = @ \cup {sc.pos}, !.processed = @ + 1],
                    IF ProgressCallbackThrows(isIndexing) THEN "Indexing cancelled"
                    ELSE "none")
  /\ UNCHANGED <<files, exclusions, started, unloaded, ops, query, results, searchError>>

\* ------------------------------------------------------------------------
\* The vault's notifications and the handlers of setupFileWatchers
\* ------------------------------------------------------------------------

\* A call of indexFile by a handler, awaiting vault.cachedRead.
\* from is the old path when the call is made by the 'rename' handler.
NewOp(f) == [file |-> f, phase |-> "reading", text |-> 0, srcMtime |-> 0, from |-> <<>>]

\* n handlers each start indexFile for f.
Spawn(n, f) == ops \o [i \in 1..n |-> NewOp(f)]

HandlerLast(act, f, replaced, excl) ==
  [act |-> act, path |-> PathOf(f), replaced |-> replaced, by |-> "handler",
   afterCancel |-> FALSE, excluded |-> excl, from |-> <<>>]

\* The file is written (bump = 1: its mtime advances; bump = 0: the write
\* falls in the same tick of the clock and rewrites the same text); every
\* registered 'modify' handler calls updateFile.
VaultModify(f, t, bump) ==
  /\ files[f].exists
  /\ files[f].mtime + bump <= MaxMtime
  /\ bump = 0 => t = files[f].text
  /\ Len(ops) + watchers.modify <= MaxOps
  /\ files' = [files EXCEPT ![f] = [@ EXCEPT !.mtime = @ + bump, !.text = t]]
  /\ IF watchers.modify = 0 \/ ~IsMarkdown(PathOf(f))
     THEN UNCHANGED <<ops, last>>
     ELSE IF updateFileSkips(index, PathOf(f), files[f].mtime + bump)
     THEN /\ ops' = ops
          /\ last' = HandlerLast("skipped", f, FALSE, FALSE)
     ELSE /\ ops' = Spawn(watchers.modify, f)
          /\ last' = HandlerLast("started", f, FALSE, FALSE)
  /\ UNCHANGED <<index, exclusions, settings, isIndexing, bars, started, watchers, pc,
                 unloaded, scans, notice, query, results, searchError>>

\* A file is created; every registered 'create' handler calls indexFile.
VaultCreate(f, t) ==
  /\ ~files[f].exists
  /\ \A g \in FileIds : files[g].exists => PathOf(g) # PathOf(f)
  /\ files[f].mtime < MaxMtime
  /\ Len(ops) + watchers.create <= MaxOps
  /\ files' = [files EXCEPT ![f] = [@ EXCEPT !.exists = TRUE, !.mtime = @ + 1, !.text = t]]
  /\ IF watchers.create = 0 \/ ~IsMarkdown(PathOf(f))
     THEN UNCHANGED <<ops, last>>
     ELSE /\ ops' = Spawn(watchers.create, f)
          /\ last' = HandlerLast("started", f, FALSE, FALSE)
  /\ UNCHANGED <<index, exclusions, settings, isIndexing, bars, started, watchers, pc,
                 unloaded, scans, notice, query, results, searchError>>

\* A file is deleted; every registered 'delete' handler calls removeFile.
VaultDelete(f) ==
  /\ files[f].exists
  /\ files' = [files EXCEPT ![f].exists = FALSE]
  /\ IF watchers.delete = 0 \/ ~IsMarkdown(PathOf(f))
     THEN UNCHANGED <<index, last>>
     ELSE /\ index' = removeFile(index, PathOf(f))
          /\ last' = HandlerLast("removed", f, MapHas(index, PathOf(f)), FALSE)
  /\ UNCHANGED <<exclusions, settings, isIndexing, bars, started, watchers, pc, unloaded,
                 ops, scans, notice, query, results, searchError>>

\* The paths a file may be renamed to.
RenamePaths == {PathCatalog[1], PathCatalog[3], PathCatalog[7]}

\* A file is renamed or moved to newPath; every registered 'rename' handler,
\* if the file is still a markdown file, calls removeFile(oldPath) and then
\* indexFile.
VaultRename(f, newPath) ==
  /\ files[f].exists
  /\ newPath # PathOf(f)
  /\ \A g \in FileIds : files[g].exists => PathOf(g) # newPath
  /\ Len(ops) + watchers.rename <= MaxOps
  /\ files' = [files EXCEPT ![f].path = newPath]
  /\ LET oldPath == PathOf(f)
         moved   == [act |-> "started", path |-> newPath, replaced |-> FALSE,
                     by |-> "rename", afterCancel |-> FALSE, excluded |-> FALSE,
                     from |-> oldPath]
     IN IF watchers.rename = 0
        THEN UNCHANGED <<index, ops, last>>
        ELSE IF ~IsMarkdown(newPath)
        THEN /\ UNCHANGED <<index, ops>>
             /\ last' = [moved EXCEPT !.act = "ignored"]
        ELSE /\ index' = removeFile(index, oldPath)
             /\ ops' = ops \o [i \in 1..watchers.rename |-> [NewOp(f) EXCEPT !.from = oldPath]]
             /\ last' = moved
  /\ UNCHANGED <<exclusions, settings, isIndexing, bars, started, watchers, pc, unloaded,
                 scans, notice, query, results, searchError>>

\* vault.cachedRead resolves for a handler's call of indexFile.
OpRead(i) ==
  /\ ops[i].phase = "reading"
  /\ files[ops[i].file].exists
  /\ ops' = [ops EXCEPT ![i] = [@ EXCEPT !.phase = "read",
                                         !.text = files[ops[i].file].text,
                                         !.srcMtime = files[ops[i].file].mtime]]
  /\ UNCHANGED <<files, index, exclusions, settings, isIndexing, bars, started, watchers,
                 pc, unloaded, scans, notice, last, query, results, searchError>>

\* A handler's call of indexFile throws (the read of a file that is gone
\* rejects, or parsing or the analysis throws); nothing catches it.
OpFail(i) ==
  /\ \/ ops[i].phase = "reading" /\ ~files[ops[i].file].exists
     \/ ops[i].phase = "read"
  /\ ops' = RemoveAt(ops, i)
  /\ last' = HandlerLast("failed", ops[i].file, FALSE, FALSE)
  /\ UNCHANGED <<files, index, exclusions, settings, isIndexing, bars, started, watchers,
                 pc, unloaded, scans, notice, query, results, searchError>>

\* A handler's call of indexFile stores its record and returns.
OpFinish(i) ==
  /\ ops[i].phase = "read"
  /\ LET f    == ops[i].file
         path == PathOf(f)
     IN /\ index' = indexFileStore(index, path, files[f].mtime, ops[i].text, ops[i].srcMtime)
        /\ last' = [HandlerLast("indexed", f, MapHas(index, path),
                                MatchesExclusion(path, ops[i].text, exclusions))
                      EXCEPT !.by = IF ops[i].from = <<>> THEN "handler" ELSE "rename",
                             !.from = ops[i].from]
  /\ ops' = RemoveAt(ops, i)
  /\ UNCHANGED <<files, exclusions, settings, isIndexing, bars, started, watchers, pc,
                 unloaded, scans, notice, query, results, searchError>>

\* ------------------------------------------------------------------------
\* The index under the vault's notifications
\* ------------------------------------------------------------------------

NextIndex ==
  \/ \E f \in FileIds, t \in TextIds, bump \in {0, 1} : VaultModify(f, t, bump)
  \/ \E f \in FileIds, t \in TextIds : VaultCreate(f, t)
  \/ \E f \in FileIds : VaultDelete(f)
  \/ \E i \in DOMAIN ops : OpRead(i)
  \/ \E i \in DOMAIN ops : OpFail(i)
  \/ \E i \in DOMAIN ops : OpFinish(i)

SpecIndex == InitLoaded /\ [][NextIndex]_vars

\* ------------------------------------------------------------------------
\* The index under renames
\* ------------------------------------------------------------------------

NextRename ==
  \/ \E f \in FileIds, newPath \in RenamePaths : VaultRename(f, newPath)
  \/ \E i \in DOMAIN ops : OpRead(i)
  \/ \E i \in DOMAIN ops : OpFail(i)
  \/ \E i \in DOMAIN ops : OpFinish(i)

SpecRename == InitLoaded /\ [][NextRename]_vars

\* ------------------------------------------------------------------------
\* The plugin's rebuilds of the index
\* ------------------------------------------------------------------------

NextRebuild ==
  \/ Onload
  \/ \E shouldIndex \in BOOLEAN : ModalChoice(shouldIndex)
  \/ ModalClosed
  \/ OnloadSaved
  \/ \E value \in FolderTexts : ExcludedFoldersChanged(value)
  \/ \E value \in TagTexts : ExcludedTagsChanged(value)
  \/ SaveAndReindex
  \/ CancelIndexing
  \/ \E s \in DOMAIN scans : ScanEmpty(s)
  \/ \E s \in DOMAIN scans : ScanRead(s)
  \/ \E s \in DOMAIN scans : ScanFail(s)
  \/ \E s \in DOMAIN scans : ScanFinish(s)
  \/ \E f \in FileIds : VaultDelete(f)
  \/ Onunload

SpecRebuild == Init /\ [][NextRebuild]_vars

\* The next step of run s of buildInitialIndex: it returns, its read resolves
\* or rejects, or indexFile throws or stores.
ScanStep(s) ==
  /\ s \in DOMAIN scans
  /\ (ScanEmpty(s) \/ ScanRead(s) \/ ScanFail(s) \/ ScanFinish(s))

\* The places of the runs that can be in progress together, the oldest first.
ScanSlots == 1..MaxRuns

\* onload called and standing at 'await this.loadSettings()', on a vault of
\* one document.
InitOneFile ==
  /\ files = [f \in FileIds |-> [exists |-> f = 1, mtime |-> 1, text |-> 1,
                                  path |-> PathCatalog[f]]]
  /\ index = <<>>
  /\ exclusions = NoExclusions
  /\ settings = [isVaultIndexed |-> FALSE, excluded |-> NoExclusions]
  /\ isIndexing = FALSE
  /\ bars = NoBars
  /\ started = 0
  /\ unloaded = FALSE
  /\ watchers = NoWatchers
  /\ pc = "init"
  /\ ops = <<>>
  /\ scans = <<>>
  /\ notice = NoNotice
  /\ last = NoLast
  /\ query = NoQuery
  /\ results = <<>>
  /\ searchError = "none"

\* The rebuilds when every pending promise of a run is settled in the end and
\* its continuation is run by the event loop.
SpecRunFair ==
  InitOneFile /\ [][NextRebuild]_vars /\ \A s \in ScanSlots : WF_vars(ScanStep(s))

\* ------------------------------------------------------------------------
\* The index under searches
\* ------------------------------------------------------------------------

\* The documents a search scenario may index: document d is at PathCatalog[d]
\* and holds TextCatalog[d].
DocIds == {1, 3, 4, 5, 6}

\* The queries typed into the search view.
QueryCatalog ==
  << <<"b","u","d","g","e","t">>,
     <<"B","u","d","g","e","t"," ","R","e","p","o","r","t">>,
     <<"m","a","d">>,
     <<"b">>,
     <<"a","n","g","e","r">>,
     <<"c","+","+">> >>

QueryIds == {1, 2, 3, 4, 5}

\* The index empty and idle, no rebuild and no handler call in flight.
InitSearch ==
  /\ files = [f \in FileIds |-> [exists |-> TRUE, mtime |-> 1, text |-> f, path |-> PathCatalog[f]]]
  /\ index = <<>>
  /\ exclusions = NoExclusions
  /\ settings = [isVaultIndexed |-> FALSE, excluded |-> NoExclusions]
  /\ isIndexing = FALSE
  /\ bars = NoBars
  /\ started = 0
  /\ unloaded = FALSE
  /\ watchers = Registered(NoWatchers)
  /\ pc = "loaded"
  /\ ops = <<>>
  /\ scans = <<>>
  /\ notice = NoNotice
  /\ last = NoLast
  /\ query = NoQuery
  /\ results = <<>>
  /\ searchError = "none"

DocLast(act, d, replaced) ==
  [act |-> act, path |-> PathCatalog[d], replaced |-> replaced, by |-> "call",
   afterCancel |-> FALSE, excluded |-> FALSE, from |-> <<>>]

\* indexFile runs to its end for document d.
IndexDocument(d) ==
  /\ index' = indexFileStore(index, PathCatalog[d], 1, d, 1)
  /\ last' = DocLast("indexed", d, MapHas(index, PathCatalog[d]))
  /\ query' = NoQuery
  /\ results' = <<>>
  /\ searchError' = "none"
  /\ UNCHANGED <<files, exclusions, settings, isIndexing, bars, started, watchers, pc,
                 unloaded, ops, scans, notice>>

\* removeFile for document d.
RemoveDocument(d) ==
  /\ MapHas(index, PathCatalog[d])
  /\ index' = removeFile(index, PathCatalog[d])
  /\ last' = DocLast("removed", d, TRUE)
  /\ query' = NoQuery
  /\ results' = <<>>
  /\ searchError' = "none"
  /\ UNCHANGED <<files, exclusions, settings, isIndexing, bars, started, watchers, pc,
                 unloaded, ops, scans, notice>>

\* SearchIndex.search(q); results holds the paths of the files returned,
\* none when search threw.
Search(q) ==
  /\ query' = QueryCatalog[q]
  /\ IF searchThrows(index, QueryCatalog[q])
     THEN /\ results' = <<>>
          /\ searchError' = "SyntaxError"
     ELSE /\ results' = LET found == search(index, QueryCatalog[q])
                        IN [i \in 1..Len(found) |-> found[i].path]
          /\ searchError' = "none"
  /\ UNCHANGED <<files, index, exclusions, settings, isIndexing, bars, started, watchers,
                 pc, unloaded, ops, scans, notice, last>>

NextSearch ==
  \/ \E d \in DocIds : IndexDocument(d)
  \/ \E d \in DocIds : RemoveDocument(d)
  \/ \E q \in QueryIds : Search(q)

SpecSearch == InitSearch /\ [][NextSearch]_vars

\* ------------------------------------------------------------------------
\* The index of a large vault under searches
\* ------------------------------------------------------------------------

\* The number of files of the large vault.
MaxBulk == 112

\* Every BulkGap-th file of the large vault holds a text without the query.
BulkGap == 11

\* The decimal digits of a natural number.
RECURSIVE Decimal(_)
Decimal(n) ==
  IF n < 10 THEN <<DigitSeq[n + 1]>>
  ELSE Decimal(n \div 10) \o <<DigitSeq[(n % 10) + 1]>>

\* The path of file k of the large vault: n<k>.md.
BulkPath(k) == <<"n">> \o Decimal(k) \o <<".", "m", "d">>

\* The files that mention the budget in their body only; among them are
\* exactly ScanCap files with a text that holds the query.
BulkBodyFiles == ScanCap + ScanCap \div (BulkGap - 1)

\* The text of file k of the large vault: the first BulkBodyFiles files
\* mention the budget in their body, every BulkGap-th of them not at all;
\* the files after them have it in a header.
BulkText(k) ==
  IF k > BulkBodyFiles THEN 1
  ELSE IF k % BulkGap = 0 THEN 4
  ELSE 5

\* The queries typed over the large vault.
BulkQueryIds == {1, 4}

\* indexFile runs to its end for the next file of the large vault.
BulkIndex ==
  /\ Len(index) < MaxBulk
  /\ LET k == Len(index) + 1
     IN /\ index' = indexFileStore(index, BulkPath(k), 1, BulkText(k), 1)
        /\ last' = [act |-> "indexed", path |-> BulkPath(k), replaced |-> FALSE,
                    by |-> "call", afterCancel |-> FALSE, excluded |-> FALSE, from |-> <<>>]
  /\ query' = NoQuery
  /\ results' = <<>>
  /\ searchError' = "none"
  /\ UNCHANGED <<files, exclusions, settings, isIndexing, bars, started, watchers, pc,
                 unloaded, ops, scans, notice>>

NextBulk ==
  \/ BulkIndex
  \/ \E q \in BulkQueryIds : Search(q)

SpecBulk == InitSearch /\ [][NextBulk]_vars

\* ------------------------------------------------------------------------
\* The scores of the ranking
\* ------------------------------------------------------------------------

\* The documents of the scoring scenario: two of them hold the same text
\* under filenames that match no term, one matches by its filename, and one
\* has a header, a table and a word that only contains a term.
ScoreCatalog ==
  << [path |-> PathCatalog[3], text |-> 3],
     [path |-> PathCatalog[4], text |-> 3],
     [path |-> PathCatalog[5], text |-> 3],
     [path |-> PathCatalog[1], text |-> 7] >>

ScoreDocIds == DOMAIN ScoreCatalog

\* The queries of the scoring scenario.
ScoreQueryIds == {1, 3, 5, 6}

\* indexFile runs to its end for document d of the scoring scenario, not
\* indexed so far.
IndexScoreDocument(d) ==
  /\ ~MapHas(index, ScoreCatalog[d].path)
  /\ index' = indexFileStore(index, ScoreCatalog[d].path, 1, ScoreCatalog[d].text, 1)
  /\ last' = [act |-> "indexed", path |-> ScoreCatalog[d].path,
              replaced |-> FALSE, by |-> "call",
              afterCancel |-> FALSE, excluded |-> FALSE, from |-> <<>>]
  /\ query' = NoQuery
  /\ results' = <<>>
  /\ searchError' = "none"
  /\ UNCHANGED <<files, exclusions, settings, isIndexing, bars, started, watchers, pc,
                 unloaded, ops, scans, notice>>

NextScore ==
  \/ \E d \in ScoreDocIds : IndexScoreDocument(d)
  \/ \E q \in ScoreQueryIds : Search(q)

SpecScore == InitSearch /\ [][NextScore]_vars

\* ------------------------------------------------------------------------
\* Properties of the index under the vault's notifications (SpecIndex)
\* ------------------------------------------------------------------------

\* No two entries of the index have the same path.
NoDup == \A i, j \in DOMAIN index : index[i].path = index[j].path => i = j

\* A step in which indexFile stored a record for a path that had one keeps
\* the number of records, and the path keeps a record.
ReplaceKeepsSize ==
  (last'.act = "indexed" /\ MapHas(index, last'.path))
    => (Len(index') = Len(index) /\ MapHas(index', last'.path))

\* C1: in every reachable state the index holds at most one record per path,
\* and when indexFile stores a record for a path that already has one, the
\* record is replaced and the number of records does not grow.
C1_OneRecordPerPath == [](NoDup) /\ [][ReplaceKeepsSize]_vars

\* C1 witness: indexFile has just stored a record over an existing record of
\* the same path, while the index holds records of two paths.
C1_Witness ==
  /\ last.act = "indexed"
  /\ last.replaced
  /\ Len(index) = 2
  /\ MapHas(index, last.path)

\* C2: once indexFile has stored its result for a document that matches an
\* active exclusion rule (its path under an excluded folder, or its text
\* carrying an excluded tag), the index holds no record for that path.
C2_ExcludedNotIndexed ==
  (last.act = "indexed" /\ last.excluded) => ~isFileIndexed(index, last.path)

\* A step of the 'modify' handler for file f: the file stays in the vault and
\* updateFile is called with the file as it is after the write.
ModifyStep(f) == \E t \in TextIds, bump \in {0, 1} : VaultModify(f, t, bump)

\* C3: updateFile for a path that has a record whose lastModified equals the
\* file's modification time leaves the index as it is and starts no call of
\* indexFile (no analysis); when there is no record or the times differ it
\* starts indexFile for the file, once per registered handler.
C3_UpdateSkipsSameMtime ==
  [][\A f \in FileIds :
       ModifyStep(f) =>
         IF \E i \in DOMAIN index : /\ index[i].path = PathOf(f)
                                    /\ index[i].lastModified = files'[f].mtime
         THEN index' = index /\ ops' = ops
         ELSE /\ index' = index
              /\ Len(ops') = Len(ops) + watchers.modify
              /\ SubSeq(ops', 1, Len(ops)) = ops
              /\ \A i \in (Len(ops) + 1)..Len(ops') : ops'[i] = NewOp(f)]_vars

\* C3 witness: a 'modify' notification has just been skipped by updateFile,
\* the record of the path carrying the file's modification time, with no
\* call of indexFile in flight.
C3_Witness ==
  /\ last.act = "skipped"
  /\ ops = <<>>
  /\ \E f \in FileIds :
       /\ last.path = PathOf(f)
       /\ MapHas(index, PathOf(f))
       /\ MapGet(index, PathOf(f)).lastModified = files[f].mtime

\* C4: for every record of the index, lastModified is the modification time
\* the file had when the text of the record was read.
C4_LastModifiedIsOfTextRead ==
  \A i \in DOMAIN index : index[i].lastModified = index[i].srcMtime

\* ------------------------------------------------------------------------
\* Properties of the rebuilds (SpecRebuild)
\* ------------------------------------------------------------------------

\* C5: at most one run of buildInitialIndex is in progress at any time.
C5_OneRebuildAtATime == Len(scans) <= 1

\* C6: a rebuild that was cancelled indexes no document that comes after the
\* one it had in hand when cancelIndexing ran.
C6_StopsAtNextDocument ==
  ~(last.by = "scan" /\ last.act = "indexed" /\ last.afterCancel)

\* C7: a rebuild during which cancelIndexing ran never reports
\* 'Indexing complete'.
C7_CancelledNeverComplete ==
  notice.text = "Indexing complete" => ~notice.cancelled

\* The documents 1..n of a run's collection.
Upto(n) == 1..n

\* Every document before the one in hand was stored or failed, none both; a
\* run with a failed document that has returned went through its whole
\* collection and reported completion, not an error.
BatchGoesOn ==
  /\ \A s \in DOMAIN scans :
       /\ scans[s].wrote \cup scans[s].failed = Upto(scans[s].pos - 1)
       /\ scans[s].wrote \cap scans[s].failed = {}
  /\ notice.failed # {} =>
       /\ notice.text = "Indexing complete"
       /\ notice.wrote \cup notice.failed = Upto(notice.total)
       /\ notice.wrote \cap notice.failed = {}

\* A step in which indexFile throws inside a rebuild leaves every record of
\* the index as it was.
FailureLeavesIndex == (\E s \in DOMAIN scans : ScanFail(s)) => index' = index

\* C8: when indexFile fails for one document of a rebuild, the rebuild goes
\* on: every other document of the collection is still taken in turn and
\* stored unless it fails itself, the failure changes no record of the index,
\* and buildIndex reports completion, not an error.
C8_FailureDoesNotAbort == [](BatchGoesOn) /\ [][FailureLeavesIndex]_vars

\* C8 witness: a rebuild that was never cancelled has returned with one
\* document failed and another stored, and it reported completion.
C8_Witness ==
  /\ notice.text = "Indexing complete"
  /\ ~notice.cancelled
  /\ notice.failed # {}
  /\ notice.wrote # {}
  /\ notice.total = 2

\* ------------------------------------------------------------------------
\* Properties of the searches (SpecSearch)
\* ------------------------------------------------------------------------

\* The place of a path in the results; 0 when it is not among them.
PlaceOf(path) ==
  IF \E k \in DOMAIN results : results[k] = path
  THEN CHOOSE k \in DOMAIN results : results[k] = path
  ELSE 0

\* A title match: the lower-cased filename is the lower-cased, trimmed query,
\* or contains it as a whole word.
TitleMatch(path, q) ==
  LET lowerFilename == ToLower(Basename(path))
      lowerQuery    == ToLower(Trim(q))
  IN lowerFilename = lowerQuery \/ checkWordBoundary(lowerFilename, lowerQuery)

\* A content match: the lower-cased tokens of the record, joined by spaces,
\* contain the query as a whole word.
ContentMatch(file, q) == checkWordBoundary(ContentOf(file), ToLower(Trim(q)))

\* C9: a search made right after a document was indexed, with a query equal
\* to the document's filename up to case, returns the document, and only
\* title matches come before it.
C9_FilenameQueryFindsDocument ==
  (/\ Len(query) >= MinQueryLength
   /\ last.act = "indexed"
   /\ ToLower(Basename(last.path)) = ToLower(query))
    => /\ PlaceOf(last.path) > 0
       /\ \A k \in 1..(PlaceOf(last.path) - 1) : TitleMatch(results[k], query)

\* C10: every indexed document whose lower-cased filename contains the query
\* as a whole word is among the results of the search, before every returned
\* document that matches by its content only.
C10_TitleMatchesComeFirst ==
  Len(query) >= MinQueryLength =>
    \A i \in DOMAIN index :
      checkWordBoundary(ToLower(index[i].filename), ToLower(Trim(query))) =>
        /\ PlaceOf(index[i].path) > 0
        /\ \A j \in DOMAIN index :
             (/\ ~TitleMatch(index[j].path, query)
              /\ ContentMatch(index[j], query)
              /\ PlaceOf(index[j].path) > 0)
               => PlaceOf(index[i].path) < PlaceOf(index[j].path)

\* The related terms of a query: its emotion cluster and its synonyms.
RelatedOfQuery(q) ==
  LET lowerQuery == ToLower(Trim(q))
  IN getRelatedTerms(lowerQuery) \o Synonyms(lowerQuery)

\* A semantic title match: the lower-cased filename contains a related term
\* of the query as a whole word.
SemanticTitleMatch(path, q) ==
  \E r \in DOMAIN RelatedOfQuery(q) :
     checkWordBoundary(ToLower(Basename(path)), ToLower(RelatedOfQuery(q)[r]))

\* The earliest pass an indexed document qualifies for: 1 exact title,
\* 2 exact content, 3 semantic title, 4 weighted ranking.
PassOf(path, q) ==
  IF TitleMatch(path, q) THEN 1
  ELSE IF ContentMatch(MapGet(index, path), q) THEN 2
  ELSE IF SemanticTitleMatch(path, q) THEN 3
  ELSE 4

\* C11: in the results of a search no document appears twice, and the
\* documents come in the order of the earliest pass they qualify for: none
\* comes before a document of an earlier pass.
C11_EarliestPassOrder ==
  /\ \A k, l \in DOMAIN results : results[k] = results[l] => k = l
  /\ \A k, l \in DOMAIN results :
       k < l => PassOf(results[k], query) <= PassOf(results[l], query)

\* ------------------------------------------------------------------------
\* Properties of the searches over the large vault (SpecBulk)
\* ------------------------------------------------------------------------

\* The lower-cased search terms of the last query.
QueryTerms == SearchTerms(processQuery(query))

\* The score of the i-th record of the index for the last query.
ScoreAt(i) == calculateRelevanceScore(index[i], QueryTerms)

\* The place of a path in the index, in iteration order.
IndexPlace(path) == CHOOSE i \in DOMAIN index : index[i].path = path

\* How many of the records i..Len(index) have a score > 0.
RECURSIVE PositivesFrom(_)
PositivesFrom(i) ==
  IF i > Len(index) THEN 0
  ELSE (IF ScorePositive(ScoreAt(i)) THEN 1 ELSE 0) + PositivesFrom(i + 1)

\* The place of the record with which count records of score > 0 become
\* ScanCap, looking from record i on; Len(index) when there are fewer.
RECURSIVE CutFrom(_, _)
CutFrom(i, count) ==
  IF i > Len(index) THEN Len(index)
  ELSE LET now == count + (IF ScorePositive(ScoreAt(i)) THEN 1 ELSE 0)
       IN IF now >= ScanCap THEN i ELSE CutFrom(i + 1, now)

\* C12: a search returns at most 50 documents, whatever the query and the
\* index.
C12_AtMostFiftyResults == Len(results) <= ResultLimit

\* C12 witness: a search over an index with more than 50 documents of
\* score > 0 has returned exactly 50.
C12_Witness ==
  /\ Len(query) >= MinQueryLength
  /\ Len(results) = ResultLimit
  /\ PositivesFrom(1) > ResultLimit

\* C13: every document a search returns is among the records up to the one
\* with which 100 documents of score > 0 were collected; the records after
\* it in iteration order are not in the result.
C13_ScanStopsAtHundred ==
  Len(query) >= MinQueryLength =>
    LET cut == CutFrom(1, 0)
    IN \A k \in DOMAIN results : IndexPlace(results[k]) <= cut

\* C13 witness: a search has returned its results while a record after the
\* 100th document of score > 0 has a higher score than the first result, and
\* that record is not in the result.
C13_Witness ==
  /\ Len(query) >= MinQueryLength
  /\ results # <<>>
  /\ LET cut == CutFrom(1, 0)
     IN \E i \in (cut + 1)..Len(index) :
          /\ ScoreGreater(ScoreAt(i), ScoreAt(IndexPlace(results[1])))
          /\ \A k \in DOMAIN results : results[k] # index[i].path

\* ------------------------------------------------------------------------
\* Properties of the scores (SpecScore)
\* ------------------------------------------------------------------------

\* The term occurs in the text as a whole word: an occurrence of its
\* characters with no word character right before it and none right after.
WholeWord(text, term) ==
  \E i \in 0..(Len(text) - Len(term)) :
     /\ SubSeq(text, i + 1, i + Len(term)) = term
     /\ (i = 0 \/ ~IsWordChar(text[i]))
     /\ (i + Len(term) = Len(text) \/ ~IsWordChar(text[i + Len(term) + 1]))

InFilename(file, term) == WholeWord(ToLower(file.filename), term)

InHeader(file, term) ==
  \E h \in DOMAIN file.structuredContent.headers :
     WholeWord(ToLower(file.structuredContent.headers[h]), term)

InCell(file, term) ==
  \E k \in DOMAIN file.tableContent : WholeWord(ToLower(file.tableContent[k]), term)

\* Twice the contribution of a term by the cascade: 2 for the filename,
\* else 3 for a header, else c + t.
Contribution2(file, term) ==
  IF InFilename(file, term) THEN 4
  ELSE IF InHeader(file, term) THEN 6
  ELSE LET c == IF WholeWord(ContentOf(file), term) THEN 2
                ELSE IF Includes(ContentOf(file), term) THEN 1
                ELSE 0
           t == IF c < 4 /\ InCell(file, term) THEN 4 ELSE 0
       IN c + t

\* The document passes the fast rejection: some term of the query is a
\* substring of its content.
PassesQuickCheck(file) ==
  \E k \in DOMAIN QueryTerms : Includes(ContentOf(file), QueryTerms[k])

\* A search has returned (it was not too short and it did not throw).
Searched == Len(query) >= MinQueryLength /\ searchError = "none"

\* C21: for every document that passes the fast rejection and every term of
\* the query, the contribution of the term is the one of the cascade
\* (filename 2, else header 3, else content 1 or 0.5 plus 2 for a table
\* cell), and the raw score of the document is the sum of the contributions.
C21_ContributionCascade ==
  Searched =>
    \A i \in DOMAIN index :
      PassesQuickCheck(index[i]) =>
        /\ \A k \in DOMAIN QueryTerms :
             TermScore2(index[i], ContentOf(index[i]), QueryTerms[k])
               = Contribution2(index[i], QueryTerms[k])
        /\ ScoreAt(i).raw2 = SumSeq([k \in 1..Len(QueryTerms) |->
                                       Contribution2(index[i], QueryTerms[k])])

\* C21 witness: a search has scored a document with a term in its filename,
\* and a document with one term in a header, one that is only a substring of
\* the content and one that is a whole word of the content and of a table
\* cell.
C21_Witness ==
  /\ Searched
  /\ \E i \in DOMAIN index :
       /\ PassesQuickCheck(index[i])
       /\ \E k \in DOMAIN QueryTerms : InFilename(index[i], QueryTerms[k])
  /\ \E i \in DOMAIN index :
       /\ PassesQuickCheck(index[i])
       /\ PlaceOf(index[i].path) > 0
       /\ \E h, s, c \in DOMAIN QueryTerms :
            /\ ~InFilename(index[i], QueryTerms[h]) /\ InHeader(index[i], QueryTerms[h])
            /\ Contribution2(index[i], QueryTerms[s]) = 1
            /\ ~InHeader(index[i], QueryTerms[c]) /\ InCell(index[i], QueryTerms[c])
            /\ Contribution2(index[i], QueryTerms[c]) = 6

\* C22: a document of which no term of the query is a substring of the
\* content is not in the result, whatever its filename, headers and table
\* cells hold; and every document of the result has a term of the query as a
\* substring of its content.
C22_FastRejection ==
  Searched =>
    /\ \A i \in DOMAIN index :
         ~PassesQuickCheck(index[i]) =>
            /\ ~ScorePositive(ScoreAt(i))
            /\ PlaceOf(index[i].path) = 0
    /\ \A k \in DOMAIN results : PassesQuickCheck(MapGet(index, results[k]))

\* C22 witness: a search has left out a document whose filename holds a term
\* of the query as a whole word, because its content holds none.
C22_Witness ==
  /\ Searched
  /\ \E i \in DOMAIN index :
       /\ ~PassesQuickCheck(index[i])
       /\ \E k \in DOMAIN QueryTerms : InFilename(index[i], QueryTerms[k])
       /\ PlaceOf(index[i].path) = 0

\* The score of a returned path for the last query.
ScoreOf(path) == ScoreAt(IndexPlace(path))

\* C23: the documents of the result come by score, highest first, and two
\* documents of equal score come in the order in which the index iterates
\* them.
C23_SortedByScoreStable ==
  Searched =>
    \A k, l \in DOMAIN results :
      k < l =>
        /\ ~ScoreGreater(ScoreOf(results[l]), ScoreOf(results[k]))
        /\ ~ScoreGreater(ScoreOf(results[k]), ScoreOf(results[l]))
             => IndexPlace(results[k]) < IndexPlace(results[l])

\* C23 witness: a result with two documents of equal score, and with a
\* document that comes before one the index iterates earlier.
C23_Witness ==
  /\ Searched
  /\ \E k, l \in DOMAIN results :
       /\ k < l
       /\ ~ScoreGreater(ScoreOf(results[l]), ScoreOf(results[k]))
       /\ ~ScoreGreater(ScoreOf(results[k]), ScoreOf(results[l]))
  /\ \E k, l \in DOMAIN results :
       /\ k < l
       /\ IndexPlace(results[k]) > IndexPlace(results[l])

\* The clusters of the emotion map that have the term as key or member.
ClustersOf(term) ==
  {i \in DOMAIN emotionMap :
     \/ emotionMap[i].emotion = ToLower(term)
     \/ ToLower(term) \in Range(emotionMap[i].related)}

\* The key of a cluster together with its members.
ClusterTerms(i) == {emotionMap[i].emotion} \cup Range(emotionMap[i].related)

\* The related-term set a term should have.
RelatedSet(term) == UNION {ClusterTerms(i) : i \in ClustersOf(term)}

\* C24: the related terms of the query are the key and all members of its
\* emotion cluster when the lower-cased query is the key or a member of a
\* cluster, and none otherwise; every term of that cluster has the same
\* related terms.
C24_RelatedTermsAreTheCluster ==
  /\ Range(getRelatedTerms(query)) = RelatedSet(query)
  /\ ClustersOf(query) = {} => getRelatedTerms(query) = <<>>
  /\ \A t \in RelatedSet(query) :
       Range(getRelatedTerms(t)) = Range(getRelatedTerms(query))

\* C24 witness: a query that is a member, not the key, of an emotion cluster
\* has been searched and a document was found.
C24_Witness ==
  /\ Searched
  /\ results # <<>>
  /\ ClustersOf(query) # {}
  /\ \A i \in ClustersOf(query) : emotionMap[i].emotion # ToLower(query)

\* C25: a search with a query of at least 2 characters returns; it raises no
\* error, whatever characters the terms of the query hold.
C25_SearchNeverThrows == searchError = "none"

\* ------------------------------------------------------------------------
\* More properties of the searches (SpecSearch)
\* ------------------------------------------------------------------------

\* C14: a search with a query of fewer than 2 characters returns the empty
\* sequence, whatever the index holds.
C14_ShortQueryReturnsNothing == Len(query) < MinQueryLength => results = <<>>

\* C14 witness: a query of one character has been searched while the index
\* holds a document whose content contains that character.
C14_Witness ==
  /\ Len(query) = 1
  /\ results = <<>>
  /\ \E i \in DOMAIN index : Includes(ContentOf(index[i]), ToLower(query))

\* The filename of the record contains a term of the query's emotion cluster
\* as a whole word.
ClusterTitleMatch(file, q) ==
  LET cluster == getRelatedTerms(ToLower(Trim(q)))
  IN \E r \in DOMAIN cluster :
        checkWordBoundary(ToLower(file.filename), ToLower(cluster[r]))

\* C15: when the query is the key or a member of an emotion cluster, every
\* indexed document that is neither a title match nor a content match and
\* whose lower-cased filename contains a term of the cluster as a whole word
\* is among the results of the search.
C15_ClusterTitleIsReturned ==
  Len(query) >= MinQueryLength =>
    \A i \in DOMAIN index :
      (/\ ~TitleMatch(index[i].path, query)
       /\ ~ContentMatch(index[i], query)
       /\ ClusterTitleMatch(index[i], query))
        => PlaceOf(index[i].path) > 0

\* ------------------------------------------------------------------------
\* Properties of the index under renames (SpecRename)
\* ------------------------------------------------------------------------

\* C16: once a rename from an old path to a new path has been handled, the
\* index has no record for the old path (unless another file of the vault is
\* at that path now), and, when the handler's indexFile has stored its
\* record, it has a record for the new path.
C16_RenameMovesRecord ==
  (last.by = "rename" /\ last.act \in {"indexed", "ignored"}) =>
    /\ (\A g \in FileIds : ~(files[g].exists /\ PathOf(g) = last.from))
         => ~MapHas(index, last.from)
    /\ last.act = "indexed" => MapHas(index, last.path)

\* ------------------------------------------------------------------------
\* More properties of the index under the vault's notifications (SpecIndex)
\* ------------------------------------------------------------------------

\* C17: once a handler's call of indexFile has failed for a document, the
\* index holds no record for the path of that document.
C17_FailedDocumentUnindexed ==
  (last.act = "failed" /\ last.by = "handler") => ~MapHas(index, last.path)

\* The record has all its fields from one call of indexFile: the analysis,
\* the tags, the frontmatter, the table cells and the structure are those of
\* one text, and the filename is that of the path.
WholeRecord(r) ==
  \E t \in TextIds : r = IndexedFile(r.path, r.lastModified, t, r.srcMtime)

\* C19: in every state, the states between the steps of indexFile included,
\* every record of the index has all its fields from one and the same call
\* of indexFile.
C19_RecordsAreWhole == \A i \in DOMAIN index : WholeRecord(index[i])

\* C19 witness: a call of indexFile has read a text and not yet stored its
\* record, while the index holds a record of the same path made from another
\* text.
C19_Witness ==
  \E i \in DOMAIN ops :
     /\ ops[i].phase = "read"
     /\ MapHas(index, PathOf(ops[i].file))
     /\ MapGet(index, PathOf(ops[i].file)).tags # Parsed[ops[i].text].tags

\* What removeFile(path) does to the index in a step: afterwards there is no
\* record for path, every record of another path is there as it was and no
\* record is new; without a record for path the index stays as it is; and
\* removing once more changes nothing.
RemovesOnly(path) ==
  /\ ~MapHas(index', path)
  /\ \A i \in DOMAIN index : index[i].path # path => index[i] \in Range(index')
  /\ Range(index') \subseteq Range(index)
  /\ Len(index') = Len(index) - (IF MapHas(index, path) THEN 1 ELSE 0)
  /\ ~MapHas(index, path) => index' = index
  /\ removeFile(index', path) = index'

\* C20: removeFile(path) leaves the index without a record for path and with
\* the records of all other paths unchanged; on a path without a record, and
\* when called again, it changes nothing.
C20_RemoveIsExactAndIdempotent ==
  [][\A f \in FileIds : VaultDelete(f) => RemovesOnly(PathOf(f))]_vars

\* C20 witness: the 'delete' handler has just removed the record of a path
\* while the record of another path stays in the index.
C20_Witness ==
  /\ last.act = "removed"
  /\ last.replaced
  /\ ~MapHas(index, last.path)
  /\ Len(index) = 1

\* C26: once the 'delete' notification of a file has been handled and no
\* call of indexFile for the file is in flight any more, the index has no
\* record for the path of the file: a call that started before the deletion
\* does not put the record back.
C26_DeletedStaysOut ==
  \A f \in FileIds :
    (/\ ~files[f].exists
     /\ IsMarkdown(PathOf(f))
     /\ watchers.delete >= 1
     /\ \A i \in DOMAIN ops : ops[i].file # f)
      => ~MapHas(index, PathOf(f))

\* ------------------------------------------------------------------------
\* More properties of the rebuilds (SpecRebuild)
\* ------------------------------------------------------------------------

\* C18: the progress of a rebuild is reported after each document, stored or
\* failed, as the fraction of the documents handled so far: while the rebuild
\* has document pos in hand the last report was (pos - 1) / total, and a
\* rebuild that ran to its end has reported total / total = 1.
C18_ProgressAfterEachDocument ==
  /\ \A s \in DOMAIN scans : scans[s].processed = scans[s].pos - 1
  /\ notice.text = "Indexing complete" => notice.processed = notice.total

\* C27: the setting isVaultIndexed becomes true only after a rebuild that ran
\* to its end with success: when onload sets it after its buildIndex, that
\* rebuild was not cancelled, stored every document of its collection and
\* reported completion.
C27_IndexedOnlyAfterCompleteRebuild ==
  [][(pc = "building" /\ ~settings.isVaultIndexed /\ settings'.isVaultIndexed)
       => /\ notice'.text = "Indexing complete"
          /\ ~notice'.cancelled
          /\ notice'.failed = {}]_vars

\* C28: in every state at most one handler is registered for each of the
\* vault's notifications 'modify', 'create', 'delete' and 'rename', and after
\* onunload none is registered.
C28_OneHandlerPerNotification ==
  /\ \A n \in DOMAIN watchers : watchers[n] <= 1
  /\ unloaded => watchers = NoWatchers

\* C30: when a rebuild has run to its end without a failed document and no
\* rebuild and no handler call is in progress, the paths of the index are the
\* paths of the markdown files of the vault.
C30_IndexIsTheCollection ==
  (/\ notice.text = "Indexing complete"
   /\ notice.failed = {}
   /\ scans = <<>>
   /\ ops = <<>>)
    => {index[i].path : i \in DOMAIN index}
         = {PathOf(f) : f \in {g \in FileIds : files[g].exists /\ IsMarkdown(PathOf(g))}}

\* Run number run of buildIndex is in progress.
Running(run) == \E s \in DOMAIN scans : scans[s].run = run

\* C29: every run of buildIndex ends, whether its documents are stored or
\* fail or the run is cancelled; the flag isIndexing is true only while a run
\* is in progress, and whenever it is true it becomes false again.
C29_RebuildEndsAndResetsFlag ==
  /\ [](isIndexing => scans # <<>>)
  /\ \A run \in 1..MaxRuns : Running(run) ~> ~Running(run)
  /\ isIndexing ~> ~isIndexing

\* C29 witness: a run during which cancelIndexing ran and in which a document
\* failed has ended, and the flag is false with no run in progress.
C29_Witness ==
  /\ notice.cancelled
  /\ notice.failed # {}
  /\ scans = <<>>
  /\ ~isIndexing

====
